---- MODULE Spec2Model ----
(***************************************************************************)
(* Continuous Pomodoro: the App component (elapsed-time tracking, cycle    *)
(* counting, the gift/reward ledger, the rest session), its localStorage   *)
(* snapshot and the two tick workers.                                      *)
(*                                                                         *)
(* One action is one browser event processed to completion: the handler,   *)
(* the re-render and every effect the re-render schedules, repeated until  *)
(* no state changes (Settle).  Times are milliseconds; Date.now() is the   *)
(* variable now.  A localStorage item is <<>> when the key is missing and  *)
(* <<v>> when it holds v.toString(); every value the program writes is the *)
(* decimal form of an integer, which parseInt(_, 10) reads back exactly.   *)
(***************************************************************************)
EXTENDS Integers, Sequences, FiniteSets, TLC

\* ------------------------------------------------------------------ bounds
MaxClockSteps == 1   \* the clock is at most this many steps past ClockBase
MaxInFlight == 1     \* 'tick' messages posted and not yet handled, per worker
MaxCommands == 2     \* operator commands and clock adjustments in one behaviour
MaxOvertimeSeconds == 125  \* a rest session is followed this far into overtime

\* ------------------------------------------------------- program constants
TickPeriodMs == 1000
MsPerSecond == 1000
SecondsPerMinute == 60
MinDurationSeconds == 60
BonusEvery == 4
BORROW_MINUTES == 5
DefaultDuration == 25
DefaultShort == 5
DefaultLong == 15
RestButtonMinutes == 5

\* clock readings: Date.now() when the page is opened, and the steps by which
\* the model moves the clock (half a tick period; half a second short of two
\* minutes, the length of two shortest cycles)
ClockBase == 10 * MsPerSecond
FineStep == TickPeriodMs \div 2
BigStep == 2 * MinDurationSeconds * MsPerSecond - FineStep


Min(a, b) == IF a < b THEN a ELSE b
Max(a, b) == IF a > b THEN a ELSE b

\* Math.floor(a / b) for b > 0
Floor(a, b) == a \div b
\* Math.ceil(a / b) for b > 0
Ceil(a, b) == -((-a) \div b)
\* JavaScript a % b for b > 0: the remainder has the sign of a
JsRem(a, b) == IF a >= 0 THEN a % b ELSE -((-a) % b)

\* parseInt(localStorage.getItem(k) || '0', 10)
GetInt(item) == IF item = <<>> THEN 0 ELSE item[1]

DefaultSettings ==
    [pomodoroDuration |-> DefaultDuration, shortRestReward |-> DefaultShort,
     longRestReward |-> DefaultLong]

\* Number(x) || d
OrDefault(x, d) == IF x = 0 THEN d ELSE x

LoadSettings(item) ==
    IF item = <<>> THEN DefaultSettings
    ELSE [pomodoroDuration |-> OrDefault(item[1].pomodoroDuration, DefaultDuration),
          shortRestReward |-> OrDefault(item[1].shortRestReward, DefaultShort),
          longRestReward |-> OrDefault(item[1].longRestReward, DefaultLong)]

POMODORO_DURATION_SECONDS(s) ==
    Max(MinDurationSeconds, s.pomodoroDuration * SecondsPerMinute)

EmptyStorage ==
    [acc |-> <<>>, start |-> <<>>, running |-> <<>>, pomodoros |-> <<>>,
     rest |-> <<>>, settings |-> <<>>]

NoOut ==
    [rewards |-> 0, kind |-> "none", minutes |-> 0, alerts |-> 0,
     adjustEvents |-> 0, adjust |-> 0, manual |-> 0]

\* ------------------------------------------------------------------ worker
Workers == {"main", "rest"}

\* A worker w is [interval, timers, phase, inflight]: interval tells whether
\* intervalId is set, timers is the number of setInterval timers that have
\* not been cleared.
\* self.onmessage with 'start' not clearing the interval it replaces
WorkerOnMessage_NoClear(w, msg) ==
    IF msg = "start"
    THEN [w EXCEPT !.interval = TRUE, !.timers = @ + 1, !.phase = 0]
    ELSE IF msg = "stop" THEN
        (IF w.interval
         THEN [w EXCEPT !.interval = FALSE, !.timers = @ - 1, !.phase = 0]
         ELSE w)
    ELSE w

\* timer.worker.ts self.onmessage
WorkerOnMessage(w, msg) ==
    IF msg = "start"
    THEN [w EXCEPT !.interval = TRUE,
                   !.timers = (IF w.interval THEN @ - 1 ELSE @) + 1,
                   !.phase = 0]
    ELSE IF msg = "stop" THEN
        (IF w.interval
         THEN [w EXCEPT !.interval = FALSE, !.timers = @ - 1, !.phase = 0]
         ELSE w)
    ELSE w

\* the interval callbacks over d ms: each timer posts one 'tick' per elapsed
\* period
WorkerElapse(w, d) ==
    IF w.timers = 0 THEN w
    ELSE [w EXCEPT !.phase = (w.phase + d) % TickPeriodMs,
                   !.inflight = Min(MaxInFlight,
                                    w.inflight
                                    + w.timers * ((w.phase + d) \div TickPeriodMs))]

NewWorker == [interval |-> FALSE, timers |-> 0, phase |-> 0, inflight |-> 0]

\* --------------------------------------------------------- initial state
\* getInitialState without the seeding of pomodoros from the elapsed time
getInitialState_StoredOnly(store, dur, t) ==
    LET savedAccumulated == GetInt(store.acc)
        savedStartTime == GetInt(store.start)
        wasRunning == (store.running = <<"true">>)
        raw == IF wasRunning /\ savedStartTime > 0
               THEN savedAccumulated + Floor(t - savedStartTime, MsPerSecond)
               ELSE savedAccumulated
    IN [pomodoros |-> GetInt(store.pomodoros),
        seconds |-> IF raw < 0 THEN 0 ELSE raw,
        isRunning |-> wasRunning,
        restMinutes |-> GetInt(store.rest)]

\* getInitialState(pomodoroDurationSeconds), reading storage at time t
getInitialState(store, dur, t) ==
    LET savedAccumulated == GetInt(store.acc)
        savedStartTime == GetInt(store.start)
        wasRunning == (store.running = <<"true">>)
        storedPomodoros == GetInt(store.pomodoros)
        storedRest == GetInt(store.rest)
        raw == IF wasRunning /\ savedStartTime > 0
               THEN savedAccumulated + Floor(t - savedStartTime, MsPerSecond)
               ELSE savedAccumulated
        total == IF raw < 0 THEN 0 ELSE raw
        derivedPomodoros == Floor(total, dur)
    IN [pomodoros |-> Max(storedPomodoros, derivedPomodoros),
        seconds |-> total,
        isRunning |-> wasRunning,
        restMinutes |-> storedRest]

\* ---------------------------------------------------------------- effects
\* GiftLoop classifying each cycle by the index before it
GiftLoop_PreviousIndex(startCalc, n, s) ==
    LET superGifts == Cardinality({i \in 1..n : /\ startCalc + i - 1 > 0
                                               /\ (startCalc + i - 1) % BonusEvery = 0})
        normalGifts == n - superGifts
    IN [minutes |-> superGifts * s.longRestReward + normalGifts * s.shortRestReward,
        super |-> superGifts,
        normal |-> normalGifts]

\* GiftLoop with the bonus decided by the position in the batch, not by the
\* absolute cycle number
GiftLoop_BatchIndex(startCalc, n, s) ==
    LET superGifts == Cardinality({i \in 1..n : i % BonusEvery = 0})
        normalGifts == n - superGifts
    IN [minutes |-> superGifts * s.longRestReward + normalGifts * s.shortRestReward,
        super |-> superGifts,
        normal |-> normalGifts]

\* the loop of the gift effect over i = 1..n, currentPomodoroNumber = startCalc + i:
\* the numbers of bonus and normal cycles and the minutes they add up to
GiftLoop(startCalc, n, s) ==
    LET superGifts == Cardinality({i \in 1..n : /\ startCalc + i > 0
                                               /\ (startCalc + i) % BonusEvery = 0})
        normalGifts == n - superGifts
    IN [minutes |-> superGifts * s.longRestReward + normalGifts * s.shortRestReward,
        super |-> superGifts,
        normal |-> normalGifts]

\* ManualCount with the pending manual updates not deducted
ManualCount_NotDeducted(totalDiff, pending) == 0

\* manualCount of the gift effect
ManualCount(totalDiff, pending) == Min(totalDiff, pending)

\* GiftEffect notifying once per credited cycle
GiftEffect_PerCycle(a) ==
    LET previousPomodoros == a.prevPomodorosRef
        a0 == [a EXCEPT !.ls.pomodoros = <<a.pomodorosCompleted>>,
                        !.prevPomodorosRef = a.pomodorosCompleted]
    IN IF a.pomodorosCompleted > previousPomodoros
       THEN LET totalDiff == a.pomodorosCompleted - previousPomodoros
                manualCount == ManualCount(totalDiff, a.manualUpdatesPending)
                giftableCount == totalDiff - manualCount
                a1 == [a0 EXCEPT !.manualUpdatesPending =
                                     Max(0, a.manualUpdatesPending - manualCount),
                                 !.out.manual = @ + manualCount]
                g == GiftLoop(previousPomodoros + manualCount, giftableCount,
                              a.settings)
            IN IF giftableCount > 0 /\ g.minutes > 0
               THEN [a1 EXCEPT
                        !.availableRestMinutes = @ + g.minutes,
                        !.ls.rest = <<a1.availableRestMinutes + g.minutes>>,
                        !.out.rewards = @ + giftableCount,
                        !.out.minutes = @ + g.minutes,
                        !.out.kind = IF g.super > 0 THEN "super" ELSE "gift"]
               ELSE a1
       ELSE a0

\* the gift-logic effect, run for the rendered state a
GiftEffect(a) ==
    LET previousPomodoros == a.prevPomodorosRef
        a0 == [a EXCEPT !.ls.pomodoros = <<a.pomodorosCompleted>>,
                        !.prevPomodorosRef = a.pomodorosCompleted]
    IN IF a.pomodorosCompleted > previousPomodoros
       THEN LET totalDiff == a.pomodorosCompleted - previousPomodoros
                manualCount == ManualCount(totalDiff, a.manualUpdatesPending)
                giftableCount == totalDiff - manualCount
                a1 == [a0 EXCEPT !.manualUpdatesPending =
                                     Max(0, a.manualUpdatesPending - manualCount),
                                 !.out.manual = @ + manualCount]
                g == GiftLoop(previousPomodoros + manualCount, giftableCount,
                              a.settings)
            IN IF giftableCount > 0 /\ g.minutes > 0
               THEN [a1 EXCEPT
                        !.availableRestMinutes = @ + g.minutes,
                        !.ls.rest = <<a1.availableRestMinutes + g.minutes>>,
                        !.out.rewards = @ + 1,
                        !.out.minutes = @ + g.minutes,
                        !.out.kind = IF g.super > 0 THEN "super" ELSE "gift"]
               ELSE a1
       ELSE a0

\* CycleEffect never raising the count
CycleEffect_Off(a, nxt) == nxt

\* CycleEffect assigning the derived count whenever it differs
CycleEffect_Assign(a, nxt) ==
    LET completedNow == Floor(a.totalSeconds, POMODORO_DURATION_SECONDS(a.settings))
    IN IF completedNow # a.pomodorosCompleted
       THEN [nxt EXCEPT !.pomodorosCompleted = completedNow]
       ELSE nxt

\* the cycle-derivation effect: reads the rendered state a, updates nxt
CycleEffect(a, nxt) ==
    LET completedNow == Floor(a.totalSeconds, POMODORO_DURATION_SECONDS(a.settings))
    IN IF completedNow > a.pomodorosCompleted
       THEN [nxt EXCEPT !.pomodorosCompleted = completedNow]
       ELSE nxt

\* useWorkerTimer's start/stop effect for worker w driven by flag
WorkerEffect(nxt, w, flag) ==
    [nxt EXCEPT !.worker[w] = WorkerOnMessage(@, IF flag THEN "start" ELSE "stop")]

\* the rest-finished effect
RestFinishedEffect(a, nxt) ==
    IF a.isResting /\ a.restSecondsRemaining = 0
    THEN [nxt EXCEPT !.out.alerts = @ + 1]
    ELSE nxt

\* what a render shows: the React state
RenderKey(a) ==
    <<a.settings, a.totalSeconds, a.pomodorosCompleted, a.availableRestMinutes,
      a.isRunning, a.isResting, a.restSecondsRemaining>>

GiftDeps(a) ==
    <<a.pomodorosCompleted, a.settings.longRestReward, a.settings.shortRestReward>>
CycleDeps(a) ==
    <<a.totalSeconds, a.pomodorosCompleted, POMODORO_DURATION_SECONDS(a.settings)>>
RestDeps(a) == <<a.isResting, a.restSecondsRemaining>>

\* one commit: the effects whose dependencies differ from the last render r
\* (all of them on mount), in the order the component declares them
RunEffects(r, a, mount) ==
    LET e1 == IF mount \/ GiftDeps(a) # GiftDeps(r) THEN GiftEffect(a) ELSE a
        e2 == IF mount \/ CycleDeps(a) # CycleDeps(r) THEN CycleEffect(a, e1) ELSE e1
        e3 == IF mount \/ a.isRunning # r.isRunning
              THEN WorkerEffect(e2, "main", a.isRunning) ELSE e2
        e4 == IF mount \/ a.isResting # r.isResting
              THEN WorkerEffect(e3, "rest", a.isResting) ELSE e3
        e5 == IF mount \/ RestDeps(a) # RestDeps(r) THEN RestFinishedEffect(a, e4) ELSE e4
    IN e5

\* re-render until the state is stable; r is the last rendered state
RECURSIVE Settle(_, _)
Settle(r, a) ==
    IF RenderKey(a) = RenderKey(r) THEN a
    ELSE Settle(a, RunEffects(r, a, FALSE))

\* the first render of a freshly loaded page over storage store at time t
Mount(store, t) ==
    LET s == LoadSettings(store.settings)
        iv == getInitialState(store, POMODORO_DURATION_SECONDS(s), t)
        a == [settings |-> s,
              totalSeconds |-> iv.seconds,
              pomodorosCompleted |-> iv.pomodoros,
              availableRestMinutes |-> iv.restMinutes,
              isRunning |-> iv.isRunning,
              isResting |-> FALSE,
              restSecondsRemaining |-> 0,
              prevPomodorosRef |-> iv.pomodoros,
              manualUpdatesPending |-> 0,
              ls |-> store,
              worker |-> [w \in Workers |-> NewWorker],
              out |-> NoOut]
    IN Settle(a, RunEffects(a, a, TRUE))

\* ------------------------------------------------------------------ state
VARIABLES now, settings, totalSeconds, pomodorosCompleted, availableRestMinutes,
          isRunning, isResting, restSecondsRemaining, prevPomodorosRef,
          manualUpdatesPending, ls, worker, out, last, commands, cp, restSession,
          boot, fixed

vars == <<now, settings, totalSeconds, pomodorosCompleted, availableRestMinutes,
          isRunning, isResting, restSecondsRemaining, prevPomodorosRef,
          manualUpdatesPending, ls, worker, out, last, commands, cp, restSession,
          boot, fixed>>

\* the application as one record, with the outputs of the new event empty
Cur ==
    [settings |-> settings, totalSeconds |-> totalSeconds,
     pomodorosCompleted |-> pomodorosCompleted,
     availableRestMinutes |-> availableRestMinutes, isRunning |-> isRunning,
     isResting |-> isResting, restSecondsRemaining |-> restSecondsRemaining,
     prevPomodorosRef |-> prevPomodorosRef,
     manualUpdatesPending |-> manualUpdatesPending, ls |-> ls, worker |-> worker,
     out |-> NoOut]

\* the events that are neither an operator command, a page load nor a
\* reconciliation: timer ticks and movements of the wall clock
Passive == {"tick", "restTick", "clock", "clockBack"}

\* what a tick can change of the app a, as it stands after a command, a page
\* load or a reconciliation
Checkpoint(a) ==
    [totalSeconds |-> a.totalSeconds,
     pomodorosCompleted |-> a.pomodorosCompleted,
     availableRestMinutes |-> a.availableRestMinutes,
     pomodoros |-> a.ls.pomodoros,
     rest |-> a.ls.rest]

\* a JavaScript number is [nan, v]: NaN, or the integer v
NaN == [nan |-> TRUE, v |-> 0]
Num(n) == [nan |-> FALSE, v |-> n]

JsAdd(a, b) == IF a.nan \/ b.nan THEN NaN ELSE Num(a.v + b.v)
\* a < b: false when either side is NaN
JsLess(a, b) == ~a.nan /\ ~b.nan /\ a.v < b.v
\* Math.floor(a / d) for an integer d > 0
JsFloorDiv(a, d) == IF a.nan THEN NaN ELSE Num(Floor(a.v, d))
\* Math.max(a, b): NaN when either side is NaN
JsMax(a, b) == IF a.nan \/ b.nan THEN NaN ELSE Num(Max(a.v, b.v))

DigitChars == <<"0", "1", "2", "3", "4", "5", "6", "7", "8", "9">>
IsDigit(c) == \E i \in 1..Len(DigitChars) : DigitChars[i] = c
DigitOf(c) == (CHOOSE i \in 1..Len(DigitChars) : DigitChars[i] = c) - 1

\* the value of the digits of text from position i on, up to the first
\* character that is not a digit
RECURSIVE LeadingDigits(_, _, _)
LeadingDigits(text, i, acc) ==
    IF i > Len(text) \/ ~IsDigit(text[i]) THEN acc
    ELSE LeadingDigits(text, i + 1, acc * Len(DigitChars) + DigitOf(text[i]))

RECURSIVE SkipSpaces(_)
SkipSpaces(text) ==
    IF text # <<>> /\ text[1] = " " THEN SkipSpaces(Tail(text)) ELSE text

\* parseInt(text, 10): leading blanks, an optional sign, then the longest run
\* of digits; NaN when no digit follows
parseInt(text) ==
    LET t == SkipSpaces(text)
        signed == t # <<>> /\ t[1] \in {"-", "+"}
        body == IF signed THEN Tail(t) ELSE t
    IN IF body = <<>> \/ ~IsDigit(body[1]) THEN NaN
       ELSE Num((IF signed /\ t[1] = "-" THEN -1 ELSE 1) * LeadingDigits(body, 1, 0))

\* boot follows a page load over arbitrary localStorage text: the text found
\* (disk), whether the state initialisers have run and how they ended
\* (status), and the settings and initial values they produced
NoInitial ==
    [pomodoros |-> Num(0), seconds |-> Num(0), isRunning |-> FALSE,
     restMinutes |-> Num(0)]

\* no such page load is being followed
NoBoot ==
    [disk |-> EmptyStorage, status |-> "none", settings |-> DefaultSettings,
     initial |-> NoInitial]

\* restSession records, for the rest session in progress, the clock reading at
\* which use-rest started it, its length in seconds, the balance use-rest
\* found, the rest ticks handled since and whether the balance has changed
\* since; NoSession when idle
NoSession ==
    [start |-> 0, length |-> 0, balance |-> 0, ticks |-> 0, changed |-> FALSE]

\* fixed is the fixed-settings build of the page run side by side with this
\* one (its state, its localStorage, its timers and the outputs of its last
\* event); NoFixed wherever this page is studied alone
NoFixed == [paired |-> FALSE]

\* the page's state after an event ev that left it as a
CommitApp(a, ev) ==
    /\ cp' = IF ev \in Passive THEN cp ELSE Checkpoint(a)
    /\ restSession' = IF ~a.isResting THEN NoSession
                      ELSE IF ~isResting
                           THEN [start |-> now, length |-> a.restSecondsRemaining,
                                 balance |-> availableRestMinutes, ticks |-> 0,
                                 changed |-> FALSE]
                           ELSE [restSession EXCEPT
                                   !.ticks = IF ev = "restTick" THEN @ + 1 ELSE @,
                                   !.changed = @ \/ a.availableRestMinutes
                                                      # availableRestMinutes]
    /\ boot' = boot
    /\ settings' = a.settings
    /\ totalSeconds' = a.totalSeconds
    /\ pomodorosCompleted' = a.pomodorosCompleted
    /\ availableRestMinutes' = a.availableRestMinutes
    /\ isRunning' = a.isRunning
    /\ isResting' = a.isResting
    /\ restSecondsRemaining' = a.restSecondsRemaining
    /\ prevPomodorosRef' = a.prevPomodorosRef
    /\ manualUpdatesPending' = a.manualUpdatesPending
    /\ ls' = a.ls
    /\ worker' = a.worker
    /\ out' = a.out
    /\ last' = ev

Commit(a, ev) == CommitApp(a, ev) /\ fixed' = fixed

\* the handler's result h rendered and settled, then stored
Dispatch(h, ev) ==
    /\ \E a \in {Settle(Cur, h)} : Commit(a, ev)
    /\ now' = now

\* an operator command or a clock adjustment: counted against the bound
Command == commands < MaxCommands /\ commands' = commands + 1
\* an event of the environment (tick, visibility, clock)
Event == commands' = commands

\* the settings a user has saved before the behaviour starts
SavedSettings ==
    [pomodoroDuration |-> 1, shortRestReward |-> 5, longRestReward |-> 15]

\* localStorage when the page is opened: a first launch; three cycles added by
\* hand under the saved settings, the timer never started; and the same with
\* the timer started before the page was closed, the page reopened at once or
\* half a second later
AddedStore ==
    [EmptyStorage EXCEPT !.settings = <<SavedSettings>>,
                         !.acc = <<3 * POMODORO_DURATION_SECONDS(SavedSettings)>>,
                         !.pomodoros = <<3>>]

InitStores ==
    { EmptyStorage,
      AddedStore,
      [AddedStore EXCEPT !.start = <<ClockBase>>, !.running = <<"true">>],
      [AddedStore EXCEPT !.start = <<ClockBase - FineStep>>, !.running = <<"true">>] }

Init ==
    /\ now = ClockBase
    /\ commands = 0
    /\ last = "launch"
    /\ \E store \in InitStores :
         LET a == Mount(store, ClockBase)
         IN /\ settings = a.settings
            /\ totalSeconds = a.totalSeconds
            /\ pomodorosCompleted = a.pomodorosCompleted
            /\ availableRestMinutes = a.availableRestMinutes
            /\ isRunning = a.isRunning
            /\ isResting = a.isResting
            /\ restSecondsRemaining = a.restSecondsRemaining
            /\ prevPomodorosRef = a.prevPomodorosRef
            /\ manualUpdatesPending = a.manualUpdatesPending
            /\ ls = a.ls
            /\ worker = a.worker
            /\ out = a.out
            /\ cp = Checkpoint(a)
            /\ restSession = NoSession
            /\ boot = NoBoot
            /\ fixed = NoFixed

\* ---------------------------------------------------------------- handlers
handleStartResume(a, t) ==
    [a EXCEPT !.ls.acc = <<a.totalSeconds>>, !.ls.start = <<t>>,
              !.ls.running = <<"true">>, !.isRunning = TRUE]

handlePause(a) ==
    LET completedNow == Floor(a.totalSeconds, POMODORO_DURATION_SECONDS(a.settings))
    IN [a EXCEPT !.pomodorosCompleted = Max(@, completedNow),
                 !.ls.acc = <<a.totalSeconds>>,
                 !.ls.running = <<"false">>,
                 !.ls.start = <<>>,
                 !.isRunning = FALSE]

\* handleResetTimer clearing the completed cycles with the progress
handleResetTimer_ClearsCount(a) ==
    [a EXCEPT !.totalSeconds = 0, !.pomodorosCompleted = 0,
              !.ls.acc = <<0>>, !.ls.start = <<>>]

handleResetTimer(a) ==
    [a EXCEPT !.totalSeconds = 0, !.ls.acc = <<0>>, !.ls.start = <<>>]

handleResetPomodoros(a, t) ==
    LET newTotalSeconds == JsRem(a.totalSeconds, POMODORO_DURATION_SECONDS(a.settings))
    IN [a EXCEPT !.totalSeconds = newTotalSeconds,
                 !.pomodorosCompleted = 0,
                 !.manualUpdatesPending = 0,
                 !.ls.acc = <<newTotalSeconds>>,
                 !.ls.start = IF a.isRunning THEN <<t>> ELSE @]

handleResetRestMinutes(a) ==
    [a EXCEPT !.availableRestMinutes = 0, !.ls.rest = <<0>>]

\* handleUseRest borrowing without writing the debit to storage
handleUseRest_UnsavedDebit(a) ==
    IF a.isResting THEN a
    ELSE LET p == IF a.isRunning THEN handlePause(a) ELSE a
         IN IF a.availableRestMinutes > 0
            THEN [p EXCEPT !.isResting = TRUE,
                           !.restSecondsRemaining =
                               a.availableRestMinutes * SecondsPerMinute,
                           !.availableRestMinutes = 0,
                           !.ls.rest = <<0>>]
            ELSE [p EXCEPT !.isResting = TRUE,
                           !.restSecondsRemaining = BORROW_MINUTES * SecondsPerMinute,
                           !.availableRestMinutes = @ - BORROW_MINUTES]

\* handleUseRest leaving a running focus timer alone
handleUseRest_NoPause(a) ==
    IF a.isResting THEN a
    ELSE IF a.availableRestMinutes > 0
         THEN [a EXCEPT !.isResting = TRUE,
                        !.restSecondsRemaining =
                            a.availableRestMinutes * SecondsPerMinute,
                        !.availableRestMinutes = 0,
                        !.ls.rest = <<0>>]
         ELSE [a EXCEPT !.isResting = TRUE,
                        !.restSecondsRemaining = BORROW_MINUTES * SecondsPerMinute,
                        !.availableRestMinutes = @ - BORROW_MINUTES,
                        !.ls.rest = <<a.availableRestMinutes - BORROW_MINUTES>>]

\* handleUseRest borrowing without debiting the balance
handleUseRest_NoDebit(a) ==
    IF a.isResting THEN a
    ELSE LET p == IF a.isRunning THEN handlePause(a) ELSE a
         IN IF a.availableRestMinutes > 0
            THEN [p EXCEPT !.isResting = TRUE,
                           !.restSecondsRemaining =
                               a.availableRestMinutes * SecondsPerMinute,
                           !.availableRestMinutes = 0,
                           !.ls.rest = <<0>>]
            ELSE [p EXCEPT !.isResting = TRUE,
                           !.restSecondsRemaining = BORROW_MINUTES * SecondsPerMinute,
                           !.ls.rest = <<a.availableRestMinutes>>]

handleUseRest(a) ==
    IF a.isResting THEN a
    ELSE LET p == IF a.isRunning THEN handlePause(a) ELSE a
         IN IF a.availableRestMinutes > 0
            THEN [p EXCEPT !.isResting = TRUE,
                           !.restSecondsRemaining =
                               a.availableRestMinutes * SecondsPerMinute,
                           !.availableRestMinutes = 0,
                           !.ls.rest = <<0>>]
            ELSE [p EXCEPT !.isResting = TRUE,
                           !.restSecondsRemaining = BORROW_MINUTES * SecondsPerMinute,
                           !.availableRestMinutes = @ - BORROW_MINUTES,
                           !.ls.rest = <<a.availableRestMinutes - BORROW_MINUTES>>]

\* handlePauseRest charging only whole minutes of overtime
handlePauseRest_Truncate(a) ==
    LET adjustmentMinutes ==
            IF a.restSecondsRemaining > 0
            THEN Ceil(a.restSecondsRemaining, SecondsPerMinute)
            ELSE -Floor(-a.restSecondsRemaining, SecondsPerMinute)
        b == IF adjustmentMinutes # 0
             THEN [a EXCEPT !.availableRestMinutes = @ + adjustmentMinutes,
                            !.ls.rest = <<a.availableRestMinutes + adjustmentMinutes>>,
                            !.out.adjustEvents = @ + 1,
                            !.out.adjust = adjustmentMinutes]
             ELSE a
    IN [b EXCEPT !.isResting = FALSE, !.restSecondsRemaining = 0]

\* handlePauseRest returning nothing for a rest ended early
handlePauseRest_NoRefund(a) ==
    LET adjustmentMinutes ==
            IF a.restSecondsRemaining > 0
            THEN 0
            ELSE Floor(a.restSecondsRemaining, SecondsPerMinute)
        b == IF adjustmentMinutes # 0
             THEN [a EXCEPT !.availableRestMinutes = @ + adjustmentMinutes,
                            !.ls.rest = <<a.availableRestMinutes + adjustmentMinutes>>,
                            !.out.adjustEvents = @ + 1,
                            !.out.adjust = adjustmentMinutes]
             ELSE a
    IN [b EXCEPT !.isResting = FALSE, !.restSecondsRemaining = 0]

\* handlePauseRest rounding an early end down instead of up
handlePauseRest_RoundDown(a) ==
    LET adjustmentMinutes == Floor(a.restSecondsRemaining, SecondsPerMinute)
        b == IF adjustmentMinutes # 0
             THEN [a EXCEPT !.availableRestMinutes = @ + adjustmentMinutes,
                            !.ls.rest = <<a.availableRestMinutes + adjustmentMinutes>>,
                            !.out.adjustEvents = @ + 1,
                            !.out.adjust = adjustmentMinutes]
             ELSE a
    IN [b EXCEPT !.isResting = FALSE, !.restSecondsRemaining = 0]

handlePauseRest(a) ==
    LET adjustmentMinutes ==
            IF a.restSecondsRemaining > 0
            THEN Ceil(a.restSecondsRemaining, SecondsPerMinute)
            ELSE Floor(a.restSecondsRemaining, SecondsPerMinute)
        b == IF adjustmentMinutes # 0
             THEN [a EXCEPT !.availableRestMinutes = @ + adjustmentMinutes,
                            !.ls.rest = <<a.availableRestMinutes + adjustmentMinutes>>,
                            !.out.adjustEvents = @ + 1,
                            !.out.adjust = adjustmentMinutes]
             ELSE a
    IN [b EXCEPT !.isResting = FALSE, !.restSecondsRemaining = 0]

\* handleAddPomodoro flagging two manual updates for one added cycle
handleAddPomodoro_TwoFlags(a, t) ==
    LET newTotal == a.totalSeconds + POMODORO_DURATION_SECONDS(a.settings)
    IN [a EXCEPT !.manualUpdatesPending = @ + 2,
                 !.pomodorosCompleted = @ + 1,
                 !.totalSeconds = newTotal,
                 !.ls.acc = <<newTotal>>,
                 !.ls.start = IF a.isRunning THEN <<t>> ELSE @]

handleAddPomodoro(a, t) ==
    LET newTotal == a.totalSeconds + POMODORO_DURATION_SECONDS(a.settings)
    IN [a EXCEPT !.manualUpdatesPending = @ + 1,
                 !.pomodorosCompleted = @ + 1,
                 !.totalSeconds = newTotal,
                 !.ls.acc = <<newTotal>>,
                 !.ls.start = IF a.isRunning THEN <<t>> ELSE @]

\* handleRemovePomodoro without the floor of the total at 0
handleRemovePomodoro_NoFloor(a, t) ==
    IF a.pomodorosCompleted > 0
    THEN LET newSeconds == a.totalSeconds - POMODORO_DURATION_SECONDS(a.settings)
         IN [a EXCEPT !.totalSeconds = newSeconds,
                      !.ls.acc = <<newSeconds>>,
                      !.ls.start = IF a.isRunning THEN <<t>> ELSE @,
                      !.pomodorosCompleted = @ - 1]
    ELSE a

handleRemovePomodoro(a, t) ==
    IF a.pomodorosCompleted > 0
    THEN LET newSeconds ==
                 Max(0, a.totalSeconds - POMODORO_DURATION_SECONDS(a.settings))
         IN [a EXCEPT !.totalSeconds = newSeconds,
                      !.ls.acc = <<newSeconds>>,
                      !.ls.start = IF a.isRunning THEN <<t>> ELSE @,
                      !.pomodorosCompleted = @ - 1]
    ELSE a

handleAddRestMinutes(a, minutes) ==
    IF minutes > 0
    THEN [a EXCEPT !.availableRestMinutes = @ + minutes,
                   !.ls.rest = <<a.availableRestMinutes + minutes>>]
    ELSE a

\* handleRemoveRestMinutes stopping the balance at zero
handleRemoveRestMinutes_FloorAtZero(a, minutes) ==
    IF minutes > 0
    THEN [a EXCEPT !.availableRestMinutes = Max(0, @ - minutes),
                   !.ls.rest = <<Max(0, a.availableRestMinutes - minutes)>>]
    ELSE a

handleRemoveRestMinutes(a, minutes) ==
    IF minutes > 0
    THEN [a EXCEPT !.availableRestMinutes = @ - minutes,
                   !.ls.rest = <<a.availableRestMinutes - minutes>>]
    ELSE a

\* handleReboot leaving the completed-cycle count in storage
RebootStorage_KeepsCount(store) ==
    [EmptyStorage EXCEPT !.settings = store.settings,
                         !.pomodoros = store.pomodoros]

\* handleReboot: the five snapshot keys are removed, the settings key stays
RebootStorage(store) == [EmptyStorage EXCEPT !.settings = store.settings]

handleSaveSettings(a, newSettings) ==
    [a EXCEPT !.settings = newSettings, !.ls.settings = <<newSettings>>]

\* SettingsModal.handleSave without the validation of the parsed fields
ModalSave_NoValidation(a, input) ==
    handleSaveSettings(a, [pomodoroDuration |-> parseInt(input.pomodoroDuration).v,
                           shortRestReward |-> parseInt(input.shortRestReward).v,
                           longRestReward |-> parseInt(input.longRestReward).v])

\* SettingsModal.handleSave over the texts of the three form fields
ModalSave(a, input) ==
    LET pomodoroDuration == parseInt(input.pomodoroDuration)
        shortRestReward == parseInt(input.shortRestReward)
        longRestReward == parseInt(input.longRestReward)
    IN IF \/ pomodoroDuration.nan \/ pomodoroDuration.v <= 0
          \/ shortRestReward.nan \/ shortRestReward.v <= 0
          \/ longRestReward.nan \/ longRestReward.v <= 0
       THEN a
       ELSE handleSaveSettings(a, [pomodoroDuration |-> pomodoroDuration.v,
                                   shortRestReward |-> shortRestReward.v,
                                   longRestReward |-> longRestReward.v])

syncStateFromStorage(a, t) ==
    IF a.ls.running # <<"true">> THEN a
    ELSE LET accumulatedSecondsOnStart == GetInt(a.ls.acc)
             startTime == GetInt(a.ls.start)
         IN IF startTime = 0 THEN a
            ELSE [a EXCEPT !.totalSeconds =
                      accumulatedSecondsOnStart + Floor(t - startTime, MsPerSecond)]

handleVisibilityChange(a, t) ==
    IF a.isRunning THEN syncStateFromStorage(a, t) ELSE a

\* handleMainTick leaving the total as it is
handleMainTick_NoCount(a) == a

handleMainTick(a) == [a EXCEPT !.totalSeconds = @ + 1]

\* handleRestTick stopping the countdown at zero
handleRestTick_Clamped(a) == [a EXCEPT !.restSecondsRemaining = Max(0, @ - 1)]

handleRestTick(a) == [a EXCEPT !.restSecondsRemaining = @ - 1]

\* ----------------------------------------------------------------- actions
\* what the settings form may hold when Save is pressed: three positive
\* numbers, or the same with one field left empty, set to zero, holding text
\* that is not a number, or holding a negative number
GoodInput ==
    [pomodoroDuration |-> <<"1">>, shortRestReward |-> <<"5">>,
     longRestReward |-> <<"1", "5">>]

SettingsInputs ==
    { GoodInput,
      [GoodInput EXCEPT !.pomodoroDuration = <<>>],
      [GoodInput EXCEPT !.pomodoroDuration = <<"0">>],
      [GoodInput EXCEPT !.shortRestReward = <<"a", "b", "c">>],
      [GoodInput EXCEPT !.longRestReward = <<"-", "3">>] }

ClickStart ==
    /\ Command
    /\ ~isResting /\ ~isRunning
    /\ Dispatch(handleStartResume(Cur, now), "start")

ClickPause ==
    /\ Command
    /\ ~isResting /\ isRunning
    /\ Dispatch(handlePause(Cur), "pause")

\* ClickResetTimer with the button shown while the focus timer runs
ClickResetTimer_WhileRunning ==
    /\ Command
    /\ ~isResting /\ totalSeconds > 0
    /\ Dispatch(handleResetTimer(Cur), "resetTimer")

ClickResetTimer ==
    /\ Command
    /\ ~isRunning /\ ~isResting /\ totalSeconds > 0
    /\ Dispatch(handleResetTimer(Cur), "resetTimer")

ClickResetPomodoros ==
    /\ Command
    /\ pomodorosCompleted > 0
    /\ Dispatch(handleResetPomodoros(Cur, now), "resetPomodoros")

ClickAddPomodoro ==
    /\ Command
    /\ Dispatch(handleAddPomodoro(Cur, now), "addPomodoro")

ClickRemovePomodoro ==
    /\ Command
    /\ pomodorosCompleted > 0
    /\ Dispatch(handleRemovePomodoro(Cur, now), "removePomodoro")

ClickUseRest ==
    /\ Command
    /\ ~isResting
    /\ Dispatch(handleUseRest(Cur), "useRest")

ClickEndRest ==
    /\ Command
    /\ isResting
    /\ Dispatch(handlePauseRest(Cur), "endRest")

ClickAddRestMinutes ==
    /\ Command
    /\ Dispatch(handleAddRestMinutes(Cur, RestButtonMinutes), "addRest")

ClickRemoveRestMinutes ==
    /\ Command
    /\ Dispatch(handleRemoveRestMinutes(Cur, RestButtonMinutes), "removeRest")

ClickResetRestMinutes ==
    /\ Command
    /\ availableRestMinutes # 0
    /\ Dispatch(handleResetRestMinutes(Cur), "resetRest")

SaveSettings ==
    /\ Command
    /\ \E input \in SettingsInputs : Dispatch(ModalSave(Cur, input), "saveSettings")

VisibilityChange ==
    /\ Event
    /\ Dispatch(handleVisibilityChange(Cur, now), "visible")

\* a 'tick' message of worker w reaches useWorkerTimer's onmessage
DeliverTick(w) ==
    /\ Event
    /\ worker[w].inflight > 0
    /\ LET a == [Cur EXCEPT !.worker[w].inflight = @ - 1]
       IN Dispatch(IF w = "main" THEN handleMainTick(a) ELSE handleRestTick(a),
                   IF w = "main" THEN "tick" ELSE "restTick")

Reload ==
    /\ Command
    /\ Commit(Mount(ls, now), "reload")
    /\ now' = now

Reboot ==
    /\ Command
    /\ Commit(Mount(RebootStorage(ls), now), "reboot")
    /\ now' = now

\* the wall clock and the workers' timers advance by d ms (while no timer is
\* active and no start time is stored, no clock reading is ever compared with
\* another, and the model leaves the clock where it is)
ClockOk(t) ==
    /\ t >= ClockBase - TickPeriodMs
    /\ \/ t < ClockBase
       \/ (t - ClockBase) \div BigStep + ((t - ClockBase) % BigStep) \div FineStep
             <= MaxClockSteps

AdvanceClock(d) ==
    /\ Event
    /\ ls.start # <<>> \/ \E w \in Workers : worker[w].interval
    /\ ClockOk(now + d)
    /\ now' = now + d
    /\ Commit([Cur EXCEPT !.worker = [w \in Workers |-> WorkerElapse(worker[w], d)]],
              "clock")

\* the wall clock is set back by d ms; the workers' timers are unaffected
ClockBack(d) ==
    /\ Command
    /\ ClockOk(now - d)
    /\ now' = now - d
    /\ Commit(Cur, "clockBack")

Next ==
    \/ ClickStart
    \/ ClickPause
    \/ ClickResetTimer
    \/ ClickResetPomodoros
    \/ ClickAddPomodoro
    \/ ClickRemovePomodoro
    \/ ClickUseRest
    \/ ClickEndRest
    \/ ClickAddRestMinutes
    \/ ClickRemoveRestMinutes
    \/ ClickResetRestMinutes
    \/ SaveSettings
    \/ VisibilityChange
    \/ \E w \in Workers : DeliverTick(w)
    \/ Reload
    \/ Reboot
    \/ \E d \in {FineStep, BigStep} : AdvanceClock(d)
    \/ ClockBack(TickPeriodMs)

Spec == Init /\ [][Next]_vars

\* ------------------------------------------------------ a rest in progress
\* The rest countdown is driven by ticks alone, one second each: the states of
\* a rest session, borrowed or paid from a balance of one or two minutes,
\* after any number of delivered ticks, down to MaxOvertimeSeconds of
\* overtime, with or without a tick still in flight.
RestSeconds == (-MaxOvertimeSeconds)..(BORROW_MINUTES * SecondsPerMinute)

\* localStorage of the pages on which the session is started
RestStores ==
    { EmptyStorage, AddedStore,
      [EmptyStorage EXCEPT !.rest = <<1>>], [EmptyStorage EXCEPT !.rest = <<2>>] }

\* the length in seconds of the session use-rest starts over store
SessionLength(store) ==
    IF GetInt(store.rest) > 0 THEN GetInt(store.rest) * SecondsPerMinute
    ELSE BORROW_MINUTES * SecondsPerMinute

\* the app of a page loaded over store, use-rest pressed, ticked down to r
RestingAt(store, r, queued) ==
    LET a0 == Mount(store, ClockBase)
        a1 == Settle(a0, handleUseRest(a0))
        a2 == [a1 EXCEPT !.restSecondsRemaining = r,
                         !.worker["rest"].inflight = queued,
                         !.out = NoOut]
    IN IF r = a1.restSecondsRemaining THEN a2 ELSE RestFinishedEffect(a2, a2)

RestInitOver(stores, seconds) ==
    /\ now = ClockBase
    /\ commands = 0
    /\ \E store \in stores, r \in seconds, queued \in 0..MaxInFlight :
         /\ r <= SessionLength(store)
         /\ \E a \in {RestingAt(store, r, queued)} :
            /\ last = (IF r = SessionLength(store) THEN "useRest" ELSE "restTick")
            /\ settings = a.settings
            /\ totalSeconds = a.totalSeconds
            /\ pomodorosCompleted = a.pomodorosCompleted
            /\ availableRestMinutes = a.availableRestMinutes
            /\ isRunning = a.isRunning
            /\ isResting = a.isResting
            /\ restSecondsRemaining = a.restSecondsRemaining
            /\ prevPomodorosRef = a.prevPomodorosRef
            /\ manualUpdatesPending = a.manualUpdatesPending
            /\ ls = a.ls
            /\ worker = a.worker
            /\ out = a.out
            /\ cp = Checkpoint(a)
            /\ restSession =
                   [start |-> ClockBase - (SessionLength(store) - r) * MsPerSecond,
                    length |-> SessionLength(store),
                    balance |-> GetInt(store.rest),
                    ticks |-> SessionLength(store) - r,
                    changed |-> FALSE]
            /\ boot = NoBoot
            /\ fixed = NoFixed

RestInit == RestInitOver(RestStores, RestSeconds)

RestNext ==
    \/ ClickEndRest
    \/ ClickUseRest
    \/ DeliverTick("rest")

RestSpec == RestInit /\ [][RestNext]_vars


\* ------------------------------------------ messages posted to the workers
\* Any sequence of 'start' and 'stop' messages: useWorkerTimer's start/stop
\* effect run for worker w with either value of its flag, whatever the worker
\* was told before, between movements of the clock and deliveries of ticks.
PostMessage(w, flag) ==
    /\ Event
    /\ Commit(WorkerEffect(Cur, w, flag),
              IF flag THEN (IF worker[w].interval THEN "startAgain" ELSE "workerStart")
              ELSE (IF worker[w].interval THEN "workerStop" ELSE "stopAgain"))
    /\ now' = now

WorkerInit ==
    /\ now = ClockBase
    /\ commands = 0
    /\ last = "launch"
    /\ restSession = NoSession
    /\ boot = NoBoot
    /\ fixed = NoFixed
    /\ \E a \in {Mount(store, ClockBase) : store \in InitStores} :
            /\ settings = a.settings
            /\ totalSeconds = a.totalSeconds
            /\ pomodorosCompleted = a.pomodorosCompleted
            /\ availableRestMinutes = a.availableRestMinutes
            /\ isRunning = a.isRunning
            /\ isResting = a.isResting
            /\ restSecondsRemaining = a.restSecondsRemaining
            /\ prevPomodorosRef = a.prevPomodorosRef
            /\ manualUpdatesPending = a.manualUpdatesPending
            /\ ls = a.ls
            /\ worker = a.worker
            /\ out = a.out
            /\ cp = Checkpoint(a)

WorkerNext ==
    \/ \E w \in Workers, flag \in BOOLEAN : PostMessage(w, flag)
    \/ \E d \in {FineStep, BigStep} : AdvanceClock(d)
    \/ \E w \in Workers : DeliverTick(w)

WorkerSpec == WorkerInit /\ [][WorkerNext]_vars

\* --------------------------------------- a page load over arbitrary storage
\* localStorage may hold any text when the page is opened (written by another
\* version, edited by hand).  A text is a sequence of characters.

\* localStorage.getItem(k) || '0': a missing key and the empty text give '0'
OrZeroText(item) == IF item = <<>> \/ item[1] = <<>> THEN <<"0">> ELSE item[1]

\* parseInt(localStorage.getItem(k) || '0', 10)
RawGetInt(item) == parseInt(OrZeroText(item))

TrueText == <<"t", "r", "u", "e">>

\* getInitialState over the text in storage, read at time t
RawGetInitialState(disk, dur, t) ==
    LET savedAccumulated == RawGetInt(disk.acc)
        savedStartTime == RawGetInt(disk.start)
        wasRunning == (disk.running = <<TrueText>>)
        storedPomodoros == RawGetInt(disk.pomodoros)
        storedRest == RawGetInt(disk.rest)
        raw == IF wasRunning /\ JsLess(Num(0), savedStartTime)
               THEN JsAdd(savedAccumulated,
                          Num(Floor(t - savedStartTime.v, MsPerSecond)))
               ELSE savedAccumulated
        total == IF JsLess(raw, Num(0)) THEN Num(0) ELSE raw
        derivedPomodoros == JsFloorDiv(total, dur)
    IN [pomodoros |-> JsMax(storedPomodoros, derivedPomodoros),
        seconds |-> total,
        isRunning |-> wasRunning,
        restMinutes |-> storedRest]

\* a value of a parsed JSON object's property: absent, a number or a text
Absent == [t |-> "undefined", v |-> 0, s |-> <<>>]
JsonNumber(n) == [t |-> "number", v |-> n, s |-> <<>>]
JsonText(s) == [t |-> "string", v |-> 0, s |-> s]

\* Number(x): NaN for undefined, the value of a text that is a decimal
\* integer, 0 for the empty text, NaN for any other text
ToNumber(x) ==
    IF x.t = "undefined" THEN NaN
    ELSE IF x.t = "number" THEN Num(x.v)
    ELSE IF x.s = <<>> THEN Num(0)
    ELSE IF \A i \in 1..Len(x.s) : IsDigit(x.s[i]) THEN Num(LeadingDigits(x.s, 1, 0))
    ELSE NaN

\* Number(x) || d
NumberOr(x, d) == IF ToNumber(x).nan \/ ToNumber(x).v = 0 THEN d ELSE ToNumber(x).v

\* The settings text is described by what JSON.parse makes of it: json is
\* "empty" (the empty text, not parsed), "malformed" (JSON.parse throws),
\* "null" (it returns null, and reading a property of null throws) or
\* "object" (it returns an object with these property values).
\* The settings initialiser: threw tells whether it raised an exception.
RawLoadSettings(item) ==
    IF item = <<>> \/ item[1].json = "empty"
    THEN [threw |-> FALSE, value |-> DefaultSettings]
    ELSE IF item[1].json \in {"malformed", "null"}
    THEN [threw |-> TRUE, value |-> DefaultSettings]
    ELSE [threw |-> FALSE,
          value |-> [pomodoroDuration |->
                         NumberOr(item[1].pomodoroDuration, DefaultDuration),
                     shortRestReward |->
                         NumberOr(item[1].shortRestReward, DefaultShort),
                     longRestReward |->
                         NumberOr(item[1].longRestReward, DefaultLong)]]

\* the two state initialisers of App run over disk at time t
RawBoot(disk, t) ==
    LET s == RawLoadSettings(disk.settings)
    IN IF s.threw
       THEN [disk |-> disk, status |-> "threw", settings |-> DefaultSettings,
             initial |-> NoInitial]
       ELSE [disk |-> disk, status |-> "ok", settings |-> s.value,
             initial |-> RawGetInitialState(
                             disk, POMODORO_DURATION_SECONDS(s.value), t)]

\* what may be found under a counter key, under the start-time key, under the
\* running key and under the settings key
CounterTexts ==
    { <<>>, <<<<>>>>, <<<<"1", "8", "0">>>>, <<<<"-", "5">>>>,
      <<<<"a", "b", "c">>>>, <<<<"1", "2", "p", "x">>>> }
StartTexts == { <<>>, <<<<"9", "0", "0", "0">>>>, <<<<"a", "b", "c">>>> }
RunningTexts == { <<>>, <<TrueText>>, <<<<"f", "a", "l", "s", "e">>>> }
JsonObject(d, s, l) ==
    [json |-> "object", pomodoroDuration |-> d, shortRestReward |-> s,
     longRestReward |-> l]
SettingsTexts ==
    { <<>>,
      <<JsonObject(JsonNumber(1), JsonNumber(5), JsonNumber(15))>>,
      <<JsonObject(JsonText(<<"a", "b", "c">>), Absent, JsonText(<<"1", "0">>))>>,
      <<[JsonObject(Absent, Absent, Absent) EXCEPT !.json = "null"]>>,
      <<[JsonObject(Absent, Absent, Absent) EXCEPT !.json = "malformed"]>> }

Disks ==
    [acc : CounterTexts, start : StartTexts, running : RunningTexts,
     pomodoros : {<<>>, <<<<"3">>>>, <<<<"a", "b", "c">>>>},
     rest : {<<>>, <<<<"-", "5">>>>, <<<<"a", "b", "c">>>>},
     settings : SettingsTexts]

\* the page is about to be opened over disk
LoadInit ==
    /\ now = ClockBase
    /\ commands = 0
    /\ last = "launch"
    /\ restSession = NoSession
    /\ boot \in {[NoBoot EXCEPT !.disk = d, !.status = "pending"] : d \in Disks}
    /\ fixed = NoFixed
    /\ \E a \in {Mount(EmptyStorage, ClockBase)} :
            /\ settings = a.settings
            /\ totalSeconds = a.totalSeconds
            /\ pomodorosCompleted = a.pomodorosCompleted
            /\ availableRestMinutes = a.availableRestMinutes
            /\ isRunning = a.isRunning
            /\ isResting = a.isResting
            /\ restSecondsRemaining = a.restSecondsRemaining
            /\ prevPomodorosRef = a.prevPomodorosRef
            /\ manualUpdatesPending = a.manualUpdatesPending
            /\ ls = a.ls
            /\ worker = a.worker
            /\ out = a.out
            /\ cp = Checkpoint(a)

\* App's state initialisers run
BootPage ==
    /\ boot.status = "pending"
    /\ boot' = RawBoot(boot.disk, now)
    /\ UNCHANGED <<now, settings, totalSeconds, pomodorosCompleted,
                   availableRestMinutes, isRunning, isResting,
                   restSecondsRemaining, prevPomodorosRef, manualUpdatesPending,
                   ls, worker, out, last, commands, cp, restSession, fixed>>

LoadNext == BootPage

LoadSpec == LoadInit /\ [][LoadNext]_vars

\* ------------------------------------------------------------------ claims
D == POMODORO_DURATION_SECONDS(settings)

\* the minutes the specification credits for the cycles p+1 .. n
RewardSum(p, n, s) ==
    LET bonus == {k \in (p + 1)..n : k > 0 /\ k % BonusEvery = 0}
    IN Cardinality(bonus) * s.longRestReward
       + (n - p - Cardinality(bonus)) * s.shortRestReward

\* a step that is a page load (the count is seeded, not increased live)
Loaded == last' \in {"reload", "reboot"}

\* C1: whenever completedCycles increases live from p to n with no manual
\* adjustment pending, the minutes credited are the sum over k in p+1..n of the
\* bonus reward when k is a positive multiple of 4 and the normal reward
\* otherwise, and the rest balance grows by exactly that sum.
C1_LiveIncreaseCredits ==
    [][(/\ pomodorosCompleted' > pomodorosCompleted
        /\ ~Loaded
        /\ last' # "addPomodoro")
       => /\ out'.minutes = RewardSum(pomodorosCompleted, pomodorosCompleted', settings')
          /\ availableRestMinutes' = availableRestMinutes
                 + RewardSum(pomodorosCompleted, pomodorosCompleted', settings')]_vars

\* a reconciliation has raised the count from 3 to 5: cycle 4 earned the bonus
\* and cycle 5 the normal reward, in one batch
C1_Witness ==
    /\ last = "visible"
    /\ pomodorosCompleted = 5
    /\ out.rewards = 1
    /\ out.minutes = settings.longRestReward + settings.shortRestReward
    /\ availableRestMinutes = out.minutes

\* C2: add-one-cycle raises completedCycles by exactly 1, credits no rest
\* minutes and emits no reward event whatever index it lands on, and leaves the
\* pending manual-adjustment count at 0.
C2_AddOneCycle ==
    [][last' = "addPomodoro"
       => /\ pomodorosCompleted' = pomodorosCompleted + 1
          /\ out'.rewards = 0
          /\ out'.minutes = 0
          /\ availableRestMinutes' = availableRestMinutes
          /\ manualUpdatesPending' = 0]_vars

\* a cycle added by hand has landed on index 4, a bonus index
C2_Witness ==
    /\ last = "addPomodoro"
    /\ pomodorosCompleted = BonusEvery
    /\ out.rewards = 0
    /\ manualUpdatesPending = 0

\* C3: a reload seeds completedCycles with max(stored count, floor(elapsed
\* seconds / cycle length)), the elapsed seconds being those the load computed,
\* emits no reward event and keeps the stored rest balance, however many
\* cycles' worth of time elapsed while the page was closed.
C3_ReloadSeeds ==
    [][last' = "reload"
       => /\ pomodorosCompleted' =
                 Max(GetInt(ls.pomodoros), Floor(totalSeconds', D'))
          /\ out'.rewards = 0
          /\ availableRestMinutes' = GetInt(ls.rest)
          /\ ls'.rest = ls.rest]_vars

\* a reload has seeded 5 cycles over a stored count of 3 without any reward
C3_Witness ==
    /\ last = "reload"
    /\ pomodorosCompleted = 5
    /\ ls.pomodoros = <<5>>
    /\ out.rewards = 0
    /\ availableRestMinutes = 0

\* C4: rest minutes are earned for every completed focus cycle: each time the
\* running focus time brings the total focus seconds up to or past the next
\* multiple of the cycle length, completedCycles increases and a reward is
\* credited to the rest balance.
C4_EveryCompletionRewarded ==
    [][(/\ isRunning
        /\ last' \in {"tick", "visible"}
        /\ totalSeconds >= 0
        /\ Floor(totalSeconds', D) > Floor(totalSeconds, D))
       => /\ pomodorosCompleted' > pomodorosCompleted
          /\ out'.rewards > 0
          /\ availableRestMinutes' > availableRestMinutes]_vars

\* the elapsed focus time of the specification's computeElapsedSeconds
SpecElapsed(store, t) ==
    IF store.running = <<"true">>
    THEN GetInt(store.acc) + Max(0, Floor(t - GetInt(store.start), MsPerSecond))
    ELSE GetInt(store.acc)

\* the app as it would stand now had no tick been delivered since the last
\* command, page load or reconciliation
Undelivered ==
    [Cur EXCEPT !.totalSeconds = cp.totalSeconds,
                !.pomodorosCompleted = cp.pomodorosCompleted,
                !.prevPomodorosRef = cp.pomodorosCompleted,
                !.availableRestMinutes = cp.availableRestMinutes,
                !.manualUpdatesPending = 0,
                !.ls.pomodoros = cp.pomodoros,
                !.ls.rest = cp.rest]

\* what a reconciliation leaves of the app a
Reconciled(a) ==
    <<a.totalSeconds, a.pomodorosCompleted, a.availableRestMinutes,
      a.manualUpdatesPending>>

\* C5: a resume-from-background reconciliation of a running timer ends in the
\* state (total focus seconds, completedCycles, rest balance, pending count)
\* in which the execution with the same wall clock and no tick delivered since
\* the committed checkpoint ends.
C5_TicksDoNotMatter ==
    [][(last' = "visible" /\ isRunning)
       => <<totalSeconds', pomodorosCompleted', availableRestMinutes',
            manualUpdatesPending'>>
          = Reconciled(Settle(Undelivered, handleVisibilityChange(Undelivered, now)))]_vars

\* C6: the elapsed focus time computed at startup and at a resume-from-
\* background reconciliation is the accumulated seconds when the timer is not
\* running, and accumulated + max(0, floor((now - start) / 1000)) when it is,
\* also when now is earlier than the start time.
C6_ElapsedClamped ==
    [][(last' = "reload" \/ (last' = "visible" /\ isRunning))
       => totalSeconds' = SpecElapsed(ls, now)]_vars

\* C7: pause commits the accumulated seconds of the last checkpoint plus the
\* whole wall-clock seconds since the start time, clears the start time and
\* stops the timer, however many ticks were delivered; a later start stamps
\* the current time and keeps the committed seconds.
C7_PauseCommitsWallClock ==
    [][/\ last' = "pause"
          => /\ ls'.acc = <<SpecElapsed(ls, now)>>
             /\ ls'.start = <<>>
             /\ ls'.running = <<"false">>
             /\ ~isRunning'
       /\ (last' = "start" /\ last = "pause")
          => /\ ls'.start = <<now>>
             /\ ls'.acc = ls.acc]_vars

\* C8: while the focus timer runs and no operator command intervenes, the
\* total focus seconds never decrease across ticks and reconciliations, even
\* when the wall clock has moved backwards.
C8_TotalNeverDecreases ==
    [][(isRunning /\ last' \in Passive \cup {"visible"})
       => totalSeconds' >= totalSeconds]_vars

\* C9 as stated: completedCycles never decreases except as the direct effect
\* of a remove-one-cycle command.
C9_OnlyRemoveLowers ==
    [][pomodorosCompleted' < pomodorosCompleted
       => last' = "removePomodoro"]_vars

\* C9: completedCycles never decreases except as the direct effect of a
\* remove-one-cycle, reset-cycles or full-reboot command; time passing,
\* reconciliation, pause and reload never lower it.
C9_OnlyCommandsLower ==
    [][pomodorosCompleted' < pomodorosCompleted
       => last' \in {"removePomodoro", "resetPomodoros", "reboot"}]_vars

\* a reset-cycles command has lowered the count from 3 to 0
C9_Witness ==
    /\ last = "resetPomodoros"
    /\ cp.pomodorosCompleted = 0
    /\ pomodorosCompleted = 0
    /\ ls.acc = <<0>>
    /\ ls.settings = <<SavedSettings>>

\* C10: use-rest while no rest session is active starts one; with a balance
\* B > 0 the session lasts B * 60 seconds and the balance becomes 0; with
\* B <= 0 it lasts 300 seconds and the balance becomes B - 5; the persisted
\* balance is the new balance.
C10_UseRest ==
    [][(last' = "useRest" /\ ~isResting)
       => /\ isResting'
          /\ IF availableRestMinutes > 0
             THEN /\ restSecondsRemaining' = availableRestMinutes * 60
                  /\ availableRestMinutes' = 0
             ELSE /\ restSecondsRemaining' = 300
                  /\ availableRestMinutes' = availableRestMinutes - 5
          /\ ls'.rest = <<availableRestMinutes'>>]_vars

\* a rest session of 20 earned minutes has started and emptied the balance
C10_Witness ==
    /\ last = "useRest"
    /\ isResting
    /\ restSecondsRemaining = 20 * SecondsPerMinute
    /\ availableRestMinutes = 0
    /\ ls.rest = <<0>>

\* the balance adjustment the specification gives for ending a rest with r
\* seconds remaining
SpecAdjustment(r) ==
    IF r > 0 THEN (r + SecondsPerMinute - 1) \div SecondsPerMinute
    ELSE -((-r + SecondsPerMinute - 1) \div SecondsPerMinute)

\* C11: end-rest from Resting returns to Idle and adjusts the balance by
\* ceil(secondsRemaining / 60) when secondsRemaining > 0 and by
\* floor(secondsRemaining / 60) when it is <= 0 (any partial overtime minute
\* costs a full minute); at 0 the balance is unchanged and no
\* balance-adjustment notification is emitted.
C11_EndRestAdjusts ==
    [][(last' = "endRest" /\ isResting)
       => /\ ~isResting'
          /\ availableRestMinutes' =
                 availableRestMinutes + SpecAdjustment(restSecondsRemaining)
          /\ ls'.rest = IF restSecondsRemaining = 0 THEN ls.rest
                        ELSE <<availableRestMinutes'>>
          /\ out'.adjustEvents = IF restSecondsRemaining = 0 THEN 0 ELSE 1]_vars

\* a rest ended one second into overtime has cost a full minute
C11_Witness ==
    /\ last = "endRest"
    /\ ~isResting
    /\ out.adjust = -1
    /\ out.adjustEvents = 1
    /\ availableRestMinutes = -BORROW_MINUTES - 1

\* the app after use-rest pressed now and end-rest pressed right after it
UseThenEnd ==
    LET a == Settle(Cur, handleUseRest(Cur))
    IN Settle(a, handlePauseRest(a))

\* C12: use-rest immediately followed by end-rest, with no rest tick in
\* between, restores the rest balance (in memory and persisted) to its value
\* before use-rest, for every starting balance.
C12_UseThenEndRestores ==
    ~isResting
    => /\ UseThenEnd.availableRestMinutes = availableRestMinutes
       /\ GetInt(UseThenEnd.ls.rest) = availableRestMinutes
       /\ ~UseThenEnd.isResting

\* use-rest and end-rest were pressed one after the other at the same clock
\* reading: 5 minutes borrowed from an empty balance, 5 returned
C12_Witness ==
    /\ last = "endRest"
    /\ commands = 2
    /\ now = ClockBase
    /\ ls.start = <<>>
    /\ out.adjust = BORROW_MINUTES
    /\ availableRestMinutes = 0
    /\ ls.rest = <<0>>

\* C13: the focus timer and a rest session are never both active; use-rest
\* pressed while the focus timer runs performs the pause transition (commits
\* the accumulated seconds, clears the start time, persists running = false,
\* stops the focus ticks) and enters Resting.
C13_MutuallyExclusive ==
    /\ [](~(isRunning /\ isResting))
    /\ [][(last' = "useRest" /\ isRunning)
          => /\ ls'.acc = <<totalSeconds>>
             /\ ls'.start = <<>>
             /\ ls'.running = <<"false">>
             /\ ~isRunning'
             /\ ~worker'["main"].interval
             /\ isResting']_vars

\* use-rest was pressed while the focus timer was running: the timer is
\* paused, its seconds committed, and the rest session is on
C13_Witness ==
    /\ last = "useRest"
    /\ commands = 1
    /\ isResting
    /\ ~isRunning
    /\ ls.running = <<"false">>
    /\ ls.start = <<>>
    /\ ls.acc = <<3 * D>>

\* C14: every delivered tick advances exactly the counter whose session is
\* active: a focus tick leaves the total focus seconds alone while the focus
\* timer is not running, a rest tick leaves secondsRemaining alone while no
\* rest session is active, also for ticks posted before the worker's 'stop'.
C14_TickOnlyWhenActive ==
    [][/\ last' = "tick"
          => /\ totalSeconds' = IF isRunning THEN totalSeconds + 1 ELSE totalSeconds
             /\ restSecondsRemaining' = restSecondsRemaining
       /\ last' = "restTick"
          => /\ restSecondsRemaining' =
                    IF isResting THEN restSecondsRemaining - 1 ELSE restSecondsRemaining
             /\ totalSeconds' = totalSeconds]_vars

\* C15: saving a new cycle length changes neither completedCycles nor the
\* rest balance and emits no reward event: the cycles already counted are not
\* derived again with the new length.
C15_SaveKeepsCycles ==
    [][last' = "saveSettings"
       => /\ pomodorosCompleted' = pomodorosCompleted
          /\ availableRestMinutes' = availableRestMinutes
          /\ out'.rewards = 0]_vars

\* the cycles p+1 .. n include a bonus cycle
HasBonus(p, n) == \E k \in (p + 1)..n : k > 0 /\ k % BonusEvery = 0

\* C16: one pass that raises completedCycles by one or several cycles of
\* focus time emits exactly one reward event for the whole batch, classified
\* bonus when at least one credited cycle is a bonus cycle and normal
\* otherwise; a pass with no giftable cycle emits none.
C16_OneEventPerBatch ==
    [][IF pomodorosCompleted' > pomodorosCompleted /\ ~Loaded
          /\ last' # "addPomodoro"
       THEN /\ out'.rewards = 1
            /\ out'.kind = IF HasBonus(pomodorosCompleted, pomodorosCompleted')
                           THEN "super" ELSE "gift"
       ELSE /\ out'.rewards = 0
            /\ out'.kind = "none"]_vars

\* one reconciliation has credited cycles 4 and 5 together: a single event,
\* classified bonus, 20 minutes
C16_Witness ==
    /\ last = "visible"
    /\ cp.pomodorosCompleted = 5
    /\ out.rewards = 1
    /\ out.kind = "super"
    /\ ls.rest = <<settings.longRestReward + settings.shortRestReward>>

\* C17: a time-driven completion is classified by the absolute value
\* completedCycles reaches (bonus iff a positive multiple of 4), whatever was
\* added by hand before: in a pass with increase d of which m cycles are
\* manual (m = 1 for add-one-cycle, 0 otherwise), the cycles credited are
\* previous + m + 1 .. previous + d.
C17_AbsoluteIndex ==
    [][(pomodorosCompleted' > pomodorosCompleted /\ ~Loaded)
       => LET m == out'.manual
              first == pomodorosCompleted + m
          IN /\ m = IF last' = "addPomodoro" THEN 1 ELSE 0
             /\ out'.minutes = RewardSum(first, pomodorosCompleted', settings')
             /\ (out'.kind = "super") = HasBonus(first, pomodorosCompleted')
             /\ (out'.kind = "none") = (first = pomodorosCompleted')]_vars

\* three cycles were added by hand and no reward was ever granted: the first
\* cycle completed by focus time is number 4 and earns the bonus
C17_Witness ==
    /\ last \in {"tick", "visible"}
    /\ ls.acc = <<3 * D>>
    /\ prevPomodorosRef = BonusEvery
    /\ out.manual = 0
    /\ out.kind = "super"
    /\ out.minutes = settings.longRestReward

\* C18: a reload reconstructs from storage the completedCycles, the rest
\* balance and the running flag held before it, and a total of focus seconds
\* equal to the committed accumulated seconds plus the whole wall-clock
\* seconds since the committed start time when running, and to the in-memory
\* total when paused.
C18_ReloadReconstructs ==
    [][last' = "reload"
       => /\ pomodorosCompleted' = pomodorosCompleted
          /\ availableRestMinutes' = availableRestMinutes
          /\ isRunning' = isRunning
          /\ totalSeconds' =
                 IF isRunning
                 THEN GetInt(ls.acc) + Floor(now - GetInt(ls.start), MsPerSecond)
                 ELSE totalSeconds]_vars

\* C19: after every event, completedCycles >= floor(total focus seconds /
\* cycle length); a tick, a reconciliation or a pause raises completedCycles
\* to the derived count when that is higher and otherwise leaves it alone.
C19_CyclesCoverTotal ==
    /\ [](pomodorosCompleted >= Floor(totalSeconds, D))
    /\ [][last' \in {"tick", "visible", "pause"}
          => pomodorosCompleted' = Max(pomodorosCompleted, Floor(totalSeconds', D'))]_vars

\* a reconciliation has found more than one cycle of focus time under a count
\* of 3 set by hand, and has left the count at 3
C19_Witness ==
    /\ last = "visible"
    /\ totalSeconds >= D
    /\ pomodorosCompleted = 3
    /\ pomodorosCompleted > Floor(totalSeconds, D)
    /\ out.rewards = 0

\* C20: the pending manual-adjustment count is never negative, is raised only
\* by add-one-cycle, and on an increase of completedCycles is reduced by
\* min(increase, pending) before any reward is computed: the added cycle is
\* set aside as manual, nothing is credited for it and nothing stays pending.
C20_PendingCount ==
    /\ [](manualUpdatesPending >= 0)
    /\ [][/\ out'.manual > 0 => last' = "addPomodoro"
          /\ manualUpdatesPending' <= manualUpdatesPending
          /\ last' = "addPomodoro"
             => /\ out'.manual = Min(pomodorosCompleted' - pomodorosCompleted,
                                     manualUpdatesPending + 1)
                /\ manualUpdatesPending' = manualUpdatesPending + 1 - out'.manual
                /\ out'.rewards = 0]_vars

\* a cycle added by hand has been set aside by the gift effect and the
\* pending count is back to 0
C20_Witness ==
    /\ last = "addPomodoro"
    /\ out.manual = 1
    /\ manualUpdatesPending = 0
    /\ prevPomodorosRef = pomodorosCompleted
    /\ out.minutes = 0

\* C21: in every reachable state, in memory and in the persisted snapshot,
\* running implies that a focus start timestamp is present: the in-memory flag
\* and the persisted flag agree, and when they are set the start-time key
\* holds a positive clock reading.
C21_RunningHasStart ==
    /\ isRunning <=> ls.running = <<"true">>
    /\ isRunning => (ls.start # <<>> /\ GetInt(ls.start) > 0)

\* a cycle was removed by hand while the focus timer was running: the start
\* time has been stamped again
C21_Witness ==
    /\ last = "removePomodoro"
    /\ isRunning
    /\ ls.running = <<"true">>
    /\ ls.start = <<now>>
    /\ pomodorosCompleted = 2

\* C22: in every reachable state the total focus seconds and completedCycles
\* are >= 0, whatever the sequence of ticks, reconciliations, reloads, clock
\* readings and operator commands.
C22_NonNegative ==
    /\ totalSeconds >= 0
    /\ pomodorosCompleted >= 0

\* C23: while Resting, secondsRemaining is re-anchored like the focus time:
\* a resume-from-background reconciliation makes it equal to the session
\* length minus the whole wall-clock seconds elapsed since the session
\* started, however many rest ticks were delayed or dropped.
C23_RestReanchored ==
    [][(last' = "visible" /\ isResting)
       => restSecondsRemaining' =
              restSession.length - Floor(now - restSession.start, MsPerSecond)]_vars

\* C24: redundant commands are no-ops: end-rest issued while Idle and use-rest
\* issued while Resting leave every field of the snapshot (rest balance, rest
\* state, secondsRemaining, focus state, persisted values, workers) unchanged
\* and emit no balance-adjustment event.
C24_RedundantNoOp ==
    IF isResting
    THEN Settle(Cur, handleUseRest(Cur)) = Cur
    ELSE Settle(Cur, handlePauseRest(Cur)) = Cur

\* the integer a persisted text stands for under the specification: 0 when
\* the key is missing or the text has no numeric reading
SpecField(item) == IF RawGetInt(item).nan THEN 0 ELSE RawGetInt(item).v

\* the storage the specification has the page start from: every missing or
\* non-numeric field replaced by its default
Sanitised(disk) ==
    [acc |-> <<SpecField(disk.acc)>>,
     start |-> <<SpecField(disk.start)>>,
     running |-> IF disk.running = <<TrueText>> THEN <<"true">> ELSE <<"false">>,
     pomodoros |-> <<SpecField(disk.pomodoros)>>,
     rest |-> <<SpecField(disk.rest)>>,
     settings |-> <<>>]

\* C25: a missing or non-numeric persisted field, or an unparsable settings
\* record, is replaced at startup by its default (0 for counters and
\* balances, false for the running flag, the default settings):
\* initialisation never fails and every snapshot value is an integer, the one
\* computed from the defaulted fields.
C25_DefaultsAtStartup ==
    boot.status \in {"ok", "threw"}
    => /\ boot.status = "ok"
       /\ ~boot.initial.seconds.nan
       /\ ~boot.initial.pomodoros.nan
       /\ ~boot.initial.restMinutes.nan
       /\ LET iv == getInitialState(Sanitised(boot.disk),
                                    POMODORO_DURATION_SECONDS(boot.settings), now)
          IN /\ boot.initial.seconds.v = iv.seconds
             /\ boot.initial.pomodoros.v = iv.pomodoros
             /\ boot.initial.restMinutes.v = iv.restMinutes
             /\ boot.initial.isRunning = iv.isRunning

\* a text with a numeric reading greater than 0
PositiveNumber(text) == ~parseInt(text).nan /\ parseInt(text).v > 0

\* the form contents in which the cycle length or a reward is non-numeric or
\* <= 0
InvalidInputs ==
    { i \in SettingsInputs : \/ ~PositiveNumber(i.pomodoroDuration)
                             \/ ~PositiveNumber(i.shortRestReward)
                             \/ ~PositiveNumber(i.longRestReward) }

\* C26: saving settings in which the cycle length or either reward is
\* non-numeric or <= 0 is rejected with no state mutation: the in-memory and
\* persisted settings and the whole snapshot stay as they were; every save
\* that does change something stores three positive integers.
C26_InvalidSaveRejected ==
    /\ [](\A i \in InvalidInputs : Settle(Cur, ModalSave(Cur, i)) = Cur)
    /\ [][last' = "saveSettings"
          => \/ /\ settings' = settings
                /\ ls' = ls
                /\ UNCHANGED <<totalSeconds, pomodorosCompleted, availableRestMinutes,
                               isRunning, isResting, restSecondsRemaining, worker>>
             \/ /\ ls'.settings = <<settings'>>
                /\ settings'.pomodoroDuration > 0
                /\ settings'.shortRestReward > 0
                /\ settings'.longRestReward > 0]_vars

\* Save was pressed on a first launch with an invalid field: nothing was
\* stored and the default settings are still in effect
C26_Witness ==
    /\ last = "saveSettings"
    /\ ls.settings = <<>>
    /\ settings = DefaultSettings
    /\ commands = 1

\* the app after full-reboot pressed now
RebootOnce == Mount(RebootStorage(ls), now)

\* C27: full-reboot is idempotent: from any state, invoking it twice produces
\* the same snapshot as invoking it once, the default one (total focus
\* seconds 0, not running, completedCycles 0, rest balance 0, Idle, no start
\* timestamp, nothing but the settings persisted beyond the zero count).
C27_RebootIdempotent ==
    \A once \in {RebootOnce} :
        /\ Mount(RebootStorage(once.ls), now) = once
        /\ once.totalSeconds = 0
        /\ ~once.isRunning
        /\ once.pomodorosCompleted = 0
        /\ once.availableRestMinutes = 0
        /\ ~once.isResting
        /\ once.restSecondsRemaining = 0
        /\ once.ls = [EmptyStorage EXCEPT !.settings = ls.settings,
                                          !.pomodoros = <<0>>]
        /\ last = "reboot" => Cur = once

\* full-reboot was pressed over three cycles recorded under saved settings:
\* the count is back to 0 and the settings are kept
C27_Witness ==
    /\ last = "reboot"
    /\ pomodorosCompleted = 0
    /\ totalSeconds = 0
    /\ ls.acc = <<>>
    /\ ls.pomodoros = <<0>>
    /\ ls.settings = <<SavedSettings>>

\* the steps in which a 'start' or a 'stop' message reaches a worker
Posted == last' \in {"workerStart", "startAgain", "workerStop", "stopAgain"}

\* C28: stopping the tick source is idempotent and keeps the checkpoint: a
\* 'stop' to a stopped worker leaves the worker and the snapshot unchanged; a
\* 'start' to a started worker replaces its interval, so that at most one
\* interval is active per worker after any sequence of start/stop messages;
\* neither message changes the persisted accumulated seconds or start
\* timestamp, nor anything else of the snapshot.
C28_StopIdempotent ==
    /\ [](\A w \in Workers : worker[w].timers = IF worker[w].interval THEN 1 ELSE 0)
    /\ [][/\ last' = "stopAgain" => worker' = worker
          /\ last' \in {"workerStop", "stopAgain"}
             => \E w \in Workers :
                   /\ ~worker'[w].interval
                   /\ \A v \in Workers \ {w} : worker'[v] = worker[v]
          /\ Posted
             => /\ ls' = ls
                /\ UNCHANGED <<settings, totalSeconds, pomodorosCompleted,
                               availableRestMinutes, isRunning, isResting,
                               restSecondsRemaining, prevPomodorosRef,
                               manualUpdatesPending>>]_vars

\* a 'start' has reached the focus worker while its interval was running, a
\* tick of the replaced interval still in flight: one interval is active,
\* counting from zero again
C28_Witness ==
    /\ last = "startAgain"
    /\ worker["main"].interval
    /\ worker["main"].timers = 1
    /\ worker["main"].phase = 0
    /\ worker["main"].inflight = 1
    /\ now > ClockBase

\* ------------------------------------------------ the fixed-settings build
\* The build without a settings form: the cycle length and the two rewards
\* are constants of the module, the ticks come from setInterval timers of the
\* page itself, and there is neither a settings save nor a full reboot.
FixedDurationSeconds == 25 * 60
FixedLongReward == 15
FixedShortReward == 5

\* A page timer is [active, phase, inflight]: active tells whether the
\* interval of the tick effect is set, inflight counts its callbacks that are
\* due and have not run yet.
NoTimer == [active |-> FALSE, phase |-> 0, inflight |-> 0]

\* the interval over d ms: one callback falls due per elapsed period
FixedElapse(tm, d) ==
    IF ~tm.active THEN tm
    ELSE [tm EXCEPT !.phase = (tm.phase + d) % TickPeriodMs,
                    !.inflight = Min(MaxInFlight,
                                     tm.inflight
                                     + (tm.phase + d) \div TickPeriodMs)]

\* getInitialState(), reading storage at time t
FixedGetInitialState(store, t) ==
    LET savedAccumulated == GetInt(store.acc)
        savedStartTime == GetInt(store.start)
        wasRunning == (store.running = <<"true">>)
        storedPomodoros == GetInt(store.pomodoros)
        storedRest == GetInt(store.rest)
        raw == IF wasRunning /\ savedStartTime > 0
               THEN savedAccumulated + Floor(t - savedStartTime, MsPerSecond)
               ELSE savedAccumulated
        total == IF raw < 0 THEN 0 ELSE raw
        derivedPomodoros == Floor(total, FixedDurationSeconds)
    IN [pomodoros |-> Max(storedPomodoros, derivedPomodoros),
        seconds |-> total,
        isRunning |-> wasRunning,
        restMinutes |-> storedRest]

\* FixedGiftLoop with the bonus on every third cycle
FixedGiftLoop_EveryThird(startCalc, n) ==
    LET superGifts == Cardinality({i \in 1..n : /\ startCalc + i > 0
                                               /\ (startCalc + i) % 3 = 0})
        normalGifts == n - superGifts
    IN [minutes |-> superGifts * FixedLongReward + normalGifts * FixedShortReward,
        super |-> superGifts,
        normal |-> normalGifts]

\* the loop of the gift effect over i = 1..n, currentPomodoroNumber = startCalc + i
FixedGiftLoop(startCalc, n) ==
    LET superGifts == Cardinality({i \in 1..n : /\ startCalc + i > 0
                                               /\ (startCalc + i) % 4 = 0})
        normalGifts == n - superGifts
    IN [minutes |-> superGifts * FixedLongReward + normalGifts * FixedShortReward,
        super |-> superGifts,
        normal |-> normalGifts]

\* the gift-logic effect, run for the rendered state a
FixedGiftEffect(a) ==
    LET previousPomodoros == a.prevPomodorosRef
        a0 == [a EXCEPT !.ls.pomodoros = <<a.pomodorosCompleted>>,
                        !.prevPomodorosRef = a.pomodorosCompleted]
    IN IF a.pomodorosCompleted > previousPomodoros
       THEN LET totalDiff == a.pomodorosCompleted - previousPomodoros
                manualCount == Min(totalDiff, a.manualUpdatesPending)
                giftableCount == totalDiff - manualCount
                a1 == [a0 EXCEPT !.manualUpdatesPending =
                                     Max(0, a.manualUpdatesPending - manualCount),
                                 !.out.manual = @ + manualCount]
                g == FixedGiftLoop(previousPomodoros + manualCount, giftableCount)
            IN IF giftableCount > 0 /\ g.minutes > 0
               THEN [a1 EXCEPT
                        !.availableRestMinutes = @ + g.minutes,
                        !.ls.rest = <<a1.availableRestMinutes + g.minutes>>,
                        !.out.rewards = @ + 1,
                        !.out.minutes = @ + g.minutes,
                        !.out.kind = IF g.super > 0 THEN "super" ELSE "gift"]
               ELSE a1
       ELSE a0

\* the cycle-derivation effect: reads the rendered state a, updates nxt
FixedCycleEffect(a, nxt) ==
    LET completedNow == Floor(a.totalSeconds, FixedDurationSeconds)
    IN IF completedNow > a.pomodorosCompleted
       THEN [nxt EXCEPT !.pomodorosCompleted = completedNow]
       ELSE nxt

\* the tick effect of timer w driven by flag: the cleanup of its last run
\* clears the interval, callbacks still due included, and its body sets a new
\* one when flag holds
FixedTickEffect(nxt, w, flag) ==
    [nxt EXCEPT !.timer[w] = IF flag THEN [NoTimer EXCEPT !.active = TRUE]
                                     ELSE NoTimer]

\* the rest-finished effect
FixedRestFinishedEffect(a, nxt) ==
    IF a.isResting /\ a.restSecondsRemaining = 0
    THEN [nxt EXCEPT !.out.alerts = @ + 1]
    ELSE nxt

\* what a render shows: the React state
FixedRenderKey(a) ==
    <<a.totalSeconds, a.pomodorosCompleted, a.availableRestMinutes,
      a.isRunning, a.isResting, a.restSecondsRemaining>>

\* one commit: the effects whose dependencies differ from the last render r
\* (all of them on mount), in the order the component declares them
FixedRunEffects(r, a, mount) ==
    LET e1 == IF mount \/ a.pomodorosCompleted # r.pomodorosCompleted
              THEN FixedGiftEffect(a) ELSE a
        e2 == IF mount \/ <<a.totalSeconds, a.pomodorosCompleted>>
                          # <<r.totalSeconds, r.pomodorosCompleted>>
              THEN FixedCycleEffect(a, e1) ELSE e1
        e3 == IF mount \/ a.isRunning # r.isRunning
              THEN FixedTickEffect(e2, "main", a.isRunning) ELSE e2
        e4 == IF mount \/ a.isResting # r.isResting
              THEN FixedTickEffect(e3, "rest", a.isResting) ELSE e3
        e5 == IF mount \/ RestDeps(a) # RestDeps(r)
              THEN FixedRestFinishedEffect(a, e4) ELSE e4
    IN e5

\* re-render until the state is stable; r is the last rendered state
RECURSIVE FixedSettle(_, _)
FixedSettle(r, a) ==
    IF FixedRenderKey(a) = FixedRenderKey(r) THEN a
    ELSE FixedSettle(a, FixedRunEffects(r, a, FALSE))

\* the first render of a freshly loaded page over storage store at time t
FixedMount(store, t) ==
    LET iv == FixedGetInitialState(store, t)
        a == [totalSeconds |-> iv.seconds,
              pomodorosCompleted |-> iv.pomodoros,
              availableRestMinutes |-> iv.restMinutes,
              isRunning |-> iv.isRunning,
              isResting |-> FALSE,
              restSecondsRemaining |-> 0,
              prevPomodorosRef |-> iv.pomodoros,
              manualUpdatesPending |-> 0,
              ls |-> store,
              timer |-> [w \in Workers |-> NoTimer],
              out |-> NoOut]
    IN FixedSettle(a, FixedRunEffects(a, a, TRUE))

FixedHandleStartResume(a, t) ==
    [a EXCEPT !.ls.acc = <<a.totalSeconds>>, !.ls.start = <<t>>,
              !.ls.running = <<"true">>, !.isRunning = TRUE]

FixedHandlePause(a) ==
    LET completedNow == Floor(a.totalSeconds, FixedDurationSeconds)
    IN [a EXCEPT !.pomodorosCompleted = Max(@, completedNow),
                 !.ls.acc = <<a.totalSeconds>>,
                 !.ls.running = <<"false">>,
                 !.ls.start = <<>>,
                 !.isRunning = FALSE]

FixedHandleResetTimer(a) ==
    [a EXCEPT !.totalSeconds = 0, !.ls.acc = <<0>>, !.ls.start = <<>>]

FixedHandleResetPomodoros(a, t) ==
    LET newTotalSeconds == JsRem(a.totalSeconds, FixedDurationSeconds)
    IN [a EXCEPT !.totalSeconds = newTotalSeconds,
                 !.pomodorosCompleted = 0,
                 !.manualUpdatesPending = 0,
                 !.ls.acc = <<newTotalSeconds>>,
                 !.ls.start = IF a.isRunning THEN <<t>> ELSE @]

FixedHandleResetRestMinutes(a) ==
    [a EXCEPT !.availableRestMinutes = 0, !.ls.rest = <<0>>]

FixedHandleUseRest(a) ==
    IF a.isResting THEN a
    ELSE LET p == IF a.isRunning THEN FixedHandlePause(a) ELSE a
         IN IF a.availableRestMinutes > 0
            THEN [p EXCEPT !.isResting = TRUE,
                           !.restSecondsRemaining =
                               a.availableRestMinutes * SecondsPerMinute,
                           !.availableRestMinutes = 0,
                           !.ls.rest = <<0>>]
            ELSE [p EXCEPT !.isResting = TRUE,
                           !.restSecondsRemaining = BORROW_MINUTES * SecondsPerMinute,
                           !.availableRestMinutes = @ - BORROW_MINUTES,
                           !.ls.rest = <<a.availableRestMinutes - BORROW_MINUTES>>]

FixedHandlePauseRest(a) ==
    LET adjustmentMinutes ==
            IF a.restSecondsRemaining > 0
            THEN Ceil(a.restSecondsRemaining, SecondsPerMinute)
            ELSE Floor(a.restSecondsRemaining, SecondsPerMinute)
        b == IF adjustmentMinutes # 0
             THEN [a EXCEPT !.availableRestMinutes = @ + adjustmentMinutes,
                            !.ls.rest = <<a.availableRestMinutes + adjustmentMinutes>>,
                            !.out.adjustEvents = @ + 1,
                            !.out.adjust = adjustmentMinutes]
             ELSE a
    IN [b EXCEPT !.isResting = FALSE, !.restSecondsRemaining = 0]

FixedHandleAddPomodoro(a, t) ==
    LET newTotal == a.totalSeconds + FixedDurationSeconds
    IN [a EXCEPT !.manualUpdatesPending = @ + 1,
                 !.pomodorosCompleted = @ + 1,
                 !.totalSeconds = newTotal,
                 !.ls.acc = <<newTotal>>,
                 !.ls.start = IF a.isRunning THEN <<t>> ELSE @]

FixedHandleRemovePomodoro(a, t) ==
    IF a.pomodorosCompleted > 0
    THEN LET newSeconds == Max(0, a.totalSeconds - FixedDurationSeconds)
         IN [a EXCEPT !.totalSeconds = newSeconds,
                      !.ls.acc = <<newSeconds>>,
                      !.ls.start = IF a.isRunning THEN <<t>> ELSE @,
                      !.pomodorosCompleted = @ - 1]
    ELSE a

FixedHandleAddRestMinutes(a, minutes) ==
    IF minutes > 0
    THEN [a EXCEPT !.availableRestMinutes = @ + minutes,
                   !.ls.rest = <<a.availableRestMinutes + minutes>>]
    ELSE a

FixedHandleRemoveRestMinutes(a, minutes) ==
    IF minutes > 0
    THEN [a EXCEPT !.availableRestMinutes = @ - minutes,
                   !.ls.rest = <<a.availableRestMinutes - minutes>>]
    ELSE a

FixedSyncStateFromStorage(a, t) ==
    IF a.ls.running # <<"true">> THEN a
    ELSE LET accumulatedSecondsOnStart == GetInt(a.ls.acc)
             startTime == GetInt(a.ls.start)
         IN IF startTime = 0 THEN a
            ELSE [a EXCEPT !.totalSeconds =
                      accumulatedSecondsOnStart + Floor(t - startTime, MsPerSecond)]

FixedHandleVisibilityChange(a, t) ==
    IF a.isRunning THEN FixedSyncStateFromStorage(a, t) ELSE a

\* the callback of the main interval
FixedMainTick(a) == [a EXCEPT !.totalSeconds = @ + 1]

\* the callback of the rest interval
FixedRestTick(a) == [a EXCEPT !.restSecondsRemaining = @ - 1]

\* --------------------------------------------- the two builds side by side
\* Both builds are opened over the same localStorage and receive the same
\* events at the same clock readings. An event is common when both pages
\* offer it: a button both show, a tick both have due.
FixedCur == [fixed EXCEPT !.out = NoOut]

\* the events of the operator that both builds offer
PairCommands ==
    {"start", "pause", "resetTimer", "resetPomodoros", "addPomodoro",
     "removePomodoro", "useRest", "endRest", "addRest", "removeRest", "resetRest"}

\* whether the page in state a shows, enabled, the control of command ev
Shown(ev, a) ==
    CASE ev = "start" -> ~a.isResting /\ ~a.isRunning
      [] ev = "pause" -> ~a.isResting /\ a.isRunning
      [] ev = "resetTimer" -> ~a.isRunning /\ ~a.isResting /\ a.totalSeconds > 0
      [] ev = "resetPomodoros" -> a.pomodorosCompleted > 0
      [] ev = "removePomodoro" -> a.pomodorosCompleted > 0
      [] ev = "useRest" -> ~a.isResting
      [] ev = "endRest" -> a.isResting
      [] ev = "resetRest" -> a.availableRestMinutes # 0
      [] OTHER -> TRUE

\* the configurable build's handler of command ev
Handle(ev, a, t) ==
    CASE ev = "start" -> handleStartResume(a, t)
      [] ev = "pause" -> handlePause(a)
      [] ev = "resetTimer" -> handleResetTimer(a)
      [] ev = "resetPomodoros" -> handleResetPomodoros(a, t)
      [] ev = "addPomodoro" -> handleAddPomodoro(a, t)
      [] ev = "removePomodoro" -> handleRemovePomodoro(a, t)
      [] ev = "useRest" -> handleUseRest(a)
      [] ev = "endRest" -> handlePauseRest(a)
      [] ev = "addRest" -> handleAddRestMinutes(a, RestButtonMinutes)
      [] ev = "removeRest" -> handleRemoveRestMinutes(a, RestButtonMinutes)
      [] ev = "resetRest" -> handleResetRestMinutes(a)

\* the fixed-settings build's handler of command ev
FixedHandle(ev, a, t) ==
    CASE ev = "start" -> FixedHandleStartResume(a, t)
      [] ev = "pause" -> FixedHandlePause(a)
      [] ev = "resetTimer" -> FixedHandleResetTimer(a)
      [] ev = "resetPomodoros" -> FixedHandleResetPomodoros(a, t)
      [] ev = "addPomodoro" -> FixedHandleAddPomodoro(a, t)
      [] ev = "removePomodoro" -> FixedHandleRemovePomodoro(a, t)
      [] ev = "useRest" -> FixedHandleUseRest(a)
      [] ev = "endRest" -> FixedHandlePauseRest(a)
      [] ev = "addRest" -> FixedHandleAddRestMinutes(a, RestButtonMinutes)
      [] ev = "removeRest" -> FixedHandleRemoveRestMinutes(a, RestButtonMinutes)
      [] ev = "resetRest" -> FixedHandleResetRestMinutes(a)

\* localStorage when the two pages are opened, the settings never saved or
\* saved with their default values: a first launch; one second short of the
\* fourth cycle with three recorded, the timer stopped or started half a
\* second ago; one second short of the first cycle, the timer started
NearBonus ==
    [EmptyStorage EXCEPT !.acc = <<BonusEvery * FixedDurationSeconds - 1>>,
                         !.pomodoros = <<BonusEvery - 1>>]

PairStores ==
    { EmptyStorage,
      NearBonus,
      [NearBonus EXCEPT !.start = <<ClockBase - FineStep>>, !.running = <<"true">>],
      [EmptyStorage EXCEPT !.settings = <<DefaultSettings>>,
                           !.acc = <<FixedDurationSeconds - 1>>,
                           !.start = <<ClockBase - FineStep>>,
                           !.running = <<"true">>] }

PairInit ==
    /\ now = ClockBase
    /\ commands = 0
    /\ last = "launch"
    /\ restSession = NoSession
    /\ boot = NoBoot
    /\ \E store \in PairStores :
         /\ fixed = FixedMount(store, ClockBase)
         /\ \E a \in {Mount(store, ClockBase)} :
              /\ settings = a.settings
              /\ totalSeconds = a.totalSeconds
              /\ pomodorosCompleted = a.pomodorosCompleted
              /\ availableRestMinutes = a.availableRestMinutes
              /\ isRunning = a.isRunning
              /\ isResting = a.isResting
              /\ restSecondsRemaining = a.restSecondsRemaining
              /\ prevPomodorosRef = a.prevPomodorosRef
              /\ manualUpdatesPending = a.manualUpdatesPending
              /\ ls = a.ls
              /\ worker = a.worker
              /\ out = a.out
              /\ cp = Checkpoint(a)

\* the operator presses, in both pages, a control both show
PairCommand(ev) ==
    /\ Command
    /\ Shown(ev, Cur) /\ Shown(ev, FixedCur)
    /\ CommitApp(Settle(Cur, Handle(ev, Cur, now)), ev)
    /\ fixed' = FixedSettle(FixedCur, FixedHandle(ev, FixedCur, now))
    /\ now' = now

\* both pages come back to the foreground
PairVisible ==
    /\ Event
    /\ CommitApp(Settle(Cur, handleVisibilityChange(Cur, now)), "visible")
    /\ fixed' = FixedSettle(FixedCur, FixedHandleVisibilityChange(FixedCur, now))
    /\ now' = now

\* a tick is handled by both pages: a 'tick' message of worker w in the one,
\* a callback of interval w in the other
PairTick(w) ==
    /\ Event
    /\ worker[w].inflight > 0 /\ fixed.timer[w].inflight > 0
    /\ LET a == [Cur EXCEPT !.worker[w].inflight = @ - 1]
           f == [FixedCur EXCEPT !.timer[w].inflight = @ - 1]
       IN /\ CommitApp(Settle(Cur, IF w = "main" THEN handleMainTick(a)
                                               ELSE handleRestTick(a)),
                       IF w = "main" THEN "tick" ELSE "restTick")
          /\ fixed' = FixedSettle(FixedCur, IF w = "main" THEN FixedMainTick(f)
                                                         ELSE FixedRestTick(f))
    /\ now' = now

\* both pages are reloaded
PairReload ==
    /\ Command
    /\ CommitApp(Mount(ls, now), "reload")
    /\ fixed' = FixedMount(fixed.ls, now)
    /\ now' = now

\* the wall clock, the workers' timers and the pages' timers advance by d ms
PairClock(d) ==
    /\ Event
    /\ ls.start # <<>> \/ \E w \in Workers : worker[w].interval
    /\ ClockOk(now + d)
    /\ now' = now + d
    /\ CommitApp([Cur EXCEPT !.worker = [w \in Workers |-> WorkerElapse(worker[w], d)]],
                 "clock")
    /\ fixed' = [FixedCur EXCEPT
                    !.timer = [w \in Workers |-> FixedElapse(fixed.timer[w], d)]]

PairNext ==
    \/ \E ev \in PairCommands : PairCommand(ev)
    \/ PairVisible
    \/ \E w \in Workers : PairTick(w)
    \/ PairReload
    \/ \E d \in {FineStep, BigStep} : PairClock(d)

PairSpec == PairInit /\ [][PairNext]_vars

\* the five persisted keys of the snapshot
SnapshotKeys == {"acc", "start", "running", "pomodoros", "rest"}

\* C29: with the settings at 25, 5 and 15 the configurable build and the
\* fixed-settings build, opened over the same storage and given the same
\* common events, hold the same state, the same persisted snapshot and
\* announce the same reward after every event.
C29_SameAsFixed ==
    /\ settings = DefaultSettings
    /\ totalSeconds = fixed.totalSeconds
    /\ pomodorosCompleted = fixed.pomodorosCompleted
    /\ availableRestMinutes = fixed.availableRestMinutes
    /\ isRunning = fixed.isRunning
    /\ isResting = fixed.isResting
    /\ restSecondsRemaining = fixed.restSecondsRemaining
    /\ \A k \in SnapshotKeys : ls[k] = fixed.ls[k]
    /\ out.rewards = fixed.out.rewards
    /\ out.kind = fixed.out.kind
    /\ out.minutes = fixed.out.minutes

\* a tick handled by both pages completed the fourth cycle, and both
\* announced the bonus reward
C29_Witness ==
    /\ last = "tick"
    /\ pomodorosCompleted = BonusEvery
    /\ out.rewards = 1 /\ out.kind = "super" /\ out.minutes = DefaultLong
    /\ fixed.out.rewards = 1 /\ fixed.out.kind = "super"

\* ------------------------------------------- adjustments while running
\* localStorage of a page on which three cycles were added by hand, the
\* timer progress was reset and the timer was then started, the page closed
\* and reopened at once
ResetStarted ==
    [AddedStore EXCEPT !.acc = <<0>>, !.start = <<ClockBase>>,
                       !.running = <<"true">>]

AdjustStores == InitStores \cup {ResetStarted}

AdjustInit ==
    /\ now = ClockBase
    /\ commands = 0
    /\ last = "launch"
    /\ restSession = NoSession
    /\ boot = NoBoot
    /\ fixed = NoFixed
    /\ \E a \in {Mount(store, ClockBase) : store \in AdjustStores} :
            /\ settings = a.settings
            /\ totalSeconds = a.totalSeconds
            /\ pomodorosCompleted = a.pomodorosCompleted
            /\ availableRestMinutes = a.availableRestMinutes
            /\ isRunning = a.isRunning
            /\ isResting = a.isResting
            /\ restSecondsRemaining = a.restSecondsRemaining
            /\ prevPomodorosRef = a.prevPomodorosRef
            /\ manualUpdatesPending = a.manualUpdatesPending
            /\ ls = a.ls
            /\ worker = a.worker
            /\ out = a.out
            /\ cp = Checkpoint(a)

AdjustSpec == AdjustInit /\ [][Next]_vars

\* C30: add-one-cycle, remove-one-cycle or reset-cycles issued while the
\* focus timer runs re-anchors the persisted checkpoint (accumulated seconds =
\* the new total, start timestamp = now), so a reload or a resume from the
\* background at once yields the total held in memory after the adjustment.
C30_AdjustReanchors ==
    [][(last' \in {"addPomodoro", "removePomodoro", "resetPomodoros"} /\ isRunning)
       => /\ ls'.acc = <<totalSeconds'>>
          /\ ls'.start = <<now'>>
          /\ ls'.running = <<"true">>
          /\ Mount(ls', now').totalSeconds = totalSeconds'
          /\ handleVisibilityChange(Cur, now)'.totalSeconds = totalSeconds']_vars

\* C31: remove-one-cycle with a positive count lowers the count by exactly 1
\* and sets the total to max(0, total - cycle length); with the count at 0 it
\* changes nothing; in both cases the rest balance, in memory and persisted,
\* is untouched and no reward is announced.
C31_RemoveOneCycle ==
    /\ [](pomodorosCompleted = 0
          => Settle(Cur, handleRemovePomodoro(Cur, now)) = Cur)
    /\ [][last' = "removePomodoro"
          => /\ pomodorosCompleted > 0
             /\ pomodorosCompleted' = pomodorosCompleted - 1
             /\ totalSeconds' = Max(0, totalSeconds - D)
             /\ availableRestMinutes' = availableRestMinutes
             /\ ls'.rest = ls.rest
             /\ out'.rewards = 0]_vars

\* a cycle was removed with less than one cycle length on the clock: the
\* total stops at 0 and two of the three cycles remain
C31_Witness ==
    /\ last = "removePomodoro"
    /\ totalSeconds = 0
    /\ ls.acc = <<0>>
    /\ pomodorosCompleted = 2

\* C32: reset-cycles sets the count to 0, the total to total mod cycle length
\* and the pending manual count to 0, announces no reward and leaves the rest
\* balance and the running flag as they were; right after it the count equals
\* floor(total / cycle length) = 0.
C32_ResetCycles ==
    [][last' = "resetPomodoros"
       => /\ pomodorosCompleted' = 0
          /\ totalSeconds' = totalSeconds % D
          /\ manualUpdatesPending' = 0
          /\ out'.rewards = 0
          /\ availableRestMinutes' = availableRestMinutes
          /\ isRunning' = isRunning
          /\ Floor(totalSeconds', D') = pomodorosCompleted']_vars

\* C33: reset-elapsed sets the total and the persisted accumulated seconds to
\* 0 and leaves the count, the rest balance, the pending manual count and the
\* running flag as they were; no reward is announced.
C33_ResetElapsed ==
    [][last' = "resetTimer"
       => /\ totalSeconds' = 0
          /\ ls'.acc = <<0>>
          /\ pomodorosCompleted' = pomodorosCompleted
          /\ ls'.pomodoros = ls.pomodoros
          /\ availableRestMinutes' = availableRestMinutes
          /\ ls'.rest = ls.rest
          /\ manualUpdatesPending' = manualUpdatesPending
          /\ isRunning' = isRunning
          /\ ls'.running = ls.running
          /\ out'.rewards = 0]_vars

\* the progress was reset with three cycles on the count: the total is 0 and
\* the three cycles remain
C33_Witness ==
    /\ last = "resetTimer"
    /\ totalSeconds = 0
    /\ ls.acc = <<0>>
    /\ pomodorosCompleted = 3
    /\ ~isRunning

\* C34: during a rest session every rest tick lowers secondsRemaining by
\* exactly 1, below zero as well, and nothing else moves it; the
\* rest-finished alert is raised at the tick that brings secondsRemaining to
\* 0 and at no other event, hence once per session, and never while Idle.
C34_RestCountdown ==
    /\ [](out.alerts > 0
          => /\ out.alerts = 1
             /\ last = "restTick"
             /\ isResting
             /\ restSecondsRemaining = 0)
    /\ [][(last' = "restTick" /\ isResting)
          => /\ isResting'
             /\ restSecondsRemaining' = restSecondsRemaining - 1
             /\ out'.alerts = IF restSecondsRemaining = 1 THEN 1 ELSE 0]_vars
    /\ [][(isResting /\ isResting' /\ restSecondsRemaining' # restSecondsRemaining)
          => last' = "restTick"]_vars
    /\ [][(~isResting /\ isResting') => restSecondsRemaining' > 0]_vars

\* the tick that brought the countdown to 0 raised the alert
C34_Witness ==
    /\ last = "restTick"
    /\ isResting
    /\ restSecondsRemaining = 0
    /\ out.alerts = 1

\* the amounts the add and remove commands are tried with: the buttons'
\* amount, zero and a negative one
RestAmounts == {RestButtonMinutes, 0, -RestButtonMinutes}

\* the app b differs from the app a in nothing but the rest balance, which
\* is newBalance in memory and, when written, in storage
OnlyBalance(a, b, newBalance, written) ==
    b = [a EXCEPT !.availableRestMinutes = newBalance,
                  !.ls.rest = IF written THEN <<newBalance>> ELSE @]

\* C35: add-rest-minutes(n) and remove-rest-minutes(n) with n > 0 move the
\* balance by exactly n, below zero as well, and with n <= 0 change nothing;
\* reset-rest-minutes sets it to 0 from any value; none of them touches the
\* total, the count or the rest session, and the persisted balance equals
\* the one in memory afterwards.
C35_RestMinuteCommands ==
    /\ [](\A a \in {Cur} :
            /\ \A n \in RestAmounts :
                 /\ OnlyBalance(a, Settle(a, handleAddRestMinutes(a, n)),
                                IF n > 0 THEN a.availableRestMinutes + n
                                ELSE a.availableRestMinutes, n > 0)
                 /\ OnlyBalance(a, Settle(a, handleRemoveRestMinutes(a, n)),
                                IF n > 0 THEN a.availableRestMinutes - n
                                ELSE a.availableRestMinutes, n > 0)
            /\ OnlyBalance(a, Settle(a, handleResetRestMinutes(a)), 0, TRUE))
    /\ [][last' \in {"addRest", "removeRest", "resetRest"}
          => /\ availableRestMinutes' =
                    (CASE last' = "addRest" -> availableRestMinutes + RestButtonMinutes
                       [] last' = "removeRest" -> availableRestMinutes - RestButtonMinutes
                       [] last' = "resetRest" -> 0)
             /\ ls'.rest = <<availableRestMinutes'>>
             /\ totalSeconds' = totalSeconds
             /\ pomodorosCompleted' = pomodorosCompleted
             /\ isResting' = isResting
             /\ restSecondsRemaining' = restSecondsRemaining]_vars

\* five minutes were removed from a borrowed balance: it went further below
\* zero, in memory and in storage
C35_Witness ==
    /\ last = "removeRest"
    /\ availableRestMinutes = -(BORROW_MINUTES + RestButtonMinutes)
    /\ ls.rest = <<availableRestMinutes>>

\* C36: a rest session started with a balance B > 0 and ended after t rest
\* ticks, no other balance command in between, leaves the balance at
\* B - floor(t / 60) when t < 60 B, at 0 when t = 60 B and at
\* -ceil((t - 60 B) / 60) when t > 60 B.
C36_PaidSessionBalance ==
    [][(last' = "endRest" /\ isResting /\ restSession.balance > 0)
       => LET B == restSession.balance
              t == restSession.ticks
          IN /\ availableRestMinutes' =
                    (IF t < SecondsPerMinute * B THEN B - Floor(t, SecondsPerMinute)
                     ELSE IF t = SecondsPerMinute * B THEN 0
                     ELSE -Ceil(t - SecondsPerMinute * B, SecondsPerMinute))
             /\ GetInt(ls'.rest) = availableRestMinutes']_vars

\* a session paid from the balance was ended in its first minute of
\* overtime: one minute is owed
C36_Witness ==
    /\ last = "endRest"
    /\ ~isResting
    /\ out.adjust = -1
    /\ availableRestMinutes = -1
    /\ ls.rest = <<-1>>

\* ------------------------------------------------ the timer left running
\* The page is left alone with the focus timer running: seconds pass, each
\* making the worker's interval post a 'tick', and the ticks are handled; no
\* control is pressed. The clock is followed for LiveHorizonSeconds.
LiveHorizonSeconds == 65

\* localStorage of the pages left running: under the saved settings, no
\* cycle yet or three on the count, the timer started as the page is opened
\* or half a second before
LiveStores ==
    { [EmptyStorage EXCEPT !.settings = <<SavedSettings>>, !.acc = <<0>>,
                           !.start = <<ClockBase>>, !.running = <<"true">>],
      [AddedStore EXCEPT !.start = <<ClockBase>>, !.running = <<"true">>],
      [AddedStore EXCEPT !.start = <<ClockBase - FineStep>>, !.running = <<"true">>] }

LiveInit ==
    /\ now = ClockBase
    /\ commands = 0
    /\ last = "launch"
    /\ restSession = NoSession
    /\ boot = NoBoot
    /\ fixed = NoFixed
    /\ \E a \in {Mount(store, ClockBase) : store \in LiveStores} :
            /\ settings = a.settings
            /\ totalSeconds = a.totalSeconds
            /\ pomodorosCompleted = a.pomodorosCompleted
            /\ availableRestMinutes = a.availableRestMinutes
            /\ isRunning = a.isRunning
            /\ isResting = a.isResting
            /\ restSecondsRemaining = a.restSecondsRemaining
            /\ prevPomodorosRef = a.prevPomodorosRef
            /\ manualUpdatesPending = a.manualUpdatesPending
            /\ ls = a.ls
            /\ worker = a.worker
            /\ out = a.out
            /\ cp = Checkpoint(a)

\* one second passes: the interval of every started worker posts its 'tick'
SecondPasses ==
    /\ Event
    /\ \A w \in Workers : worker[w].inflight < MaxInFlight
    /\ now + TickPeriodMs <= ClockBase + LiveHorizonSeconds * MsPerSecond
    /\ now' = now + TickPeriodMs
    /\ Commit([Cur EXCEPT !.worker = [w \in Workers |->
                                        WorkerElapse(worker[w], TickPeriodMs)]],
              "clock")

LiveNext ==
    \/ SecondPasses
    \/ DeliverTick("main")

\* time passes and every posted tick is handled in the end
LiveSpec ==
    /\ LiveInit
    /\ [][LiveNext]_vars
    /\ WF_vars(SecondPasses)
    /\ WF_vars(DeliverTick("main"))

\* the seconds of the horizon still to come
SecondsLeft == LiveHorizonSeconds - (now - ClockBase) \div MsPerSecond

\* the next cycle ends within the horizon, by the wall clock
NextCycleInSight ==
    /\ isRunning
    /\ ls.start # <<>>
    /\ (pomodorosCompleted + 1) * D
         - (GetInt(ls.acc) + Floor(now - GetInt(ls.start), MsPerSecond))
       <= SecondsLeft

\* a tick has just completed a cycle and the gift effect credited its reward
CycleRewarded == last = "tick" /\ out.rewards >= 1

\* C37: while the focus timer stays running, ticks keep being handled and no
\* command is given, the count of completed cycles eventually increases and
\* a reward is eventually credited to the rest balance: a cycle in sight
\* stays in sight until a tick is rewarded, a rewarded tick follows, and a
\* rewarded tick raises the count by one and the balance by the reward.
C37_EventuallyRewarded ==
    /\ NextCycleInSight ~> CycleRewarded
    /\ [][(NextCycleInSight /\ ~CycleRewarded') => NextCycleInSight']_vars
    /\ [][CycleRewarded' =>
            /\ pomodorosCompleted' = pomodorosCompleted + 1
            /\ out'.rewards = 1
            /\ out'.minutes \in {settings.shortRestReward, settings.longRestReward}
            /\ availableRestMinutes' = availableRestMinutes + out'.minutes
            /\ ls'.rest = <<availableRestMinutes'>>
            /\ ls'.pomodoros = <<pomodorosCompleted'>>]_vars

\* a minute after the page was opened with three cycles on the count, a tick
\* completed the fourth and the long reward was credited
C37_Witness ==
    /\ last = "tick"
    /\ now = ClockBase + SecondsPerMinute * MsPerSecond
    /\ pomodorosCompleted = BonusEvery
    /\ out.rewards = 1 /\ out.kind = "super"
    /\ availableRestMinutes = DefaultLong
\* ------------------------------------------- the page reloaded while resting
\* A rest session in progress, borrowed or paid, started with the focus timer
\* paused or running, at its start, a second in, around the end of its first
\* and last minute and in overtime; the rest-minute buttons of the gift store
\* stay usable while resting, and the page may be reloaded.
ReloadStores ==
    RestStores \cup {[AddedStore EXCEPT !.start = <<ClockBase>>, !.running = <<"true">>]}

ReloadSeconds ==
    { BORROW_MINUTES * SecondsPerMinute, BORROW_MINUTES * SecondsPerMinute - 1,
      2 * SecondsPerMinute, SecondsPerMinute, SecondsPerMinute - 1, 1, 0, -1,
      -SecondsPerMinute }

ReloadInit == RestInitOver(ReloadStores, ReloadSeconds)

ReloadNext ==
    \/ RestNext
    \/ ClickAddRestMinutes
    \/ ClickRemoveRestMinutes
    \/ ClickResetRestMinutes
    \/ Reload

ReloadSpec == ReloadInit /\ [][ReloadNext]_vars

\* the balance handleUseRest wrote to storage when the session started
SessionStartBalance ==
    IF restSession.balance > 0 THEN 0 ELSE restSession.balance - BORROW_MINUTES

\* C38: a reload while a rest session is active comes back idle with no
\* seconds remaining, the focus timer paused and the rest balance as it is in
\* storage at the reload, nothing refunded and nothing charged for the
\* unspent part; that balance is the one written when the session started (0,
\* or the balance before minus 5 when borrowing) as long as nothing changed
\* the balance during the session.
C38_ReloadWhileResting ==
    [][(last' = "reload" /\ isResting)
       => /\ ~isResting'
          /\ restSecondsRemaining' = 0
          /\ ~isRunning'
          /\ ls.running # <<"true">>
          /\ ls.rest = <<availableRestMinutes>>
          /\ availableRestMinutes' = availableRestMinutes
          /\ ls'.rest = ls.rest
          /\ (~restSession.changed => availableRestMinutes' = SessionStartBalance)]_vars

\* C38 as stated: the balance after the reload is the one written when the
\* session started, whatever happened during the session
C38_BalanceAsStarted ==
    [][(last' = "reload" /\ isResting)
       => /\ ~isResting'
          /\ restSecondsRemaining' = 0
          /\ ~isRunning'
          /\ availableRestMinutes' = SessionStartBalance]_vars

\* a borrowed session reloaded before anything else was pressed: idle, the
\* debit of five minutes kept
C38_Witness ==
    /\ last = "reload"
    /\ commands = 1
    /\ ~isResting
    /\ restSecondsRemaining = 0
    /\ ~isRunning
    /\ availableRestMinutes = -BORROW_MINUTES
    /\ ls.rest = <<-BORROW_MINUTES>>
    /\ ls.running = <<"false">>
    /\ pomodorosCompleted = 3
====
